---------------------------- MODULE Spec2Model ----------------------------
(***************************************************************************)
(* Model of the Unearthed Obsidian plugin's sync-and-merge engine          *)
(* (src/unnamed/part_002, the current main.ts of the plugin).              *)
(*                                                                         *)
(* Text is a sequence of tokens.  A token is a one-character string, or a  *)
(* literal chunk of the program's output ("**Note:** ", "---", a           *)
(* placeholder "{{note}}").  No chunk holds a line break, a ">" or the     *)
(* hidden marker and none starts with white space, so the program's        *)
(* regular expressions, which look only for those characters, see a chunk  *)
(* as one ordinary character.                                              *)
(***************************************************************************)
EXTENDS Naturals, Sequences, FiniteSets, TLC

VARIABLES
    files,        \* the vault: path -> text of every existing file
    folders,      \* folder names under the root, in adapter.list order
    settings,     \* plugin.settings (the fields the engine reads)
    remote,       \* what the service returns for obsidian-get: UnearthedData[]
    remoteTags,   \* what the service returns for obsidian-get-tags
    reflection,   \* what the service returns for daily-reflection (or NoReflection)
    sourceIdToFileName, \* the module-level Map<string, string>
    today,        \* the calendar day (window.moment())
    persisted,    \* the settings as last saved by saveData (survives a restart)
    pc,           \* where the running cycle is suspended ("idle" when none runs)
    cycle,        \* the running cycle's locals (kind, fetched data, currentDate)
    notices,      \* the Notice texts shown since the last cycle began
    hist          \* history of the last operation, read only by the properties

vars == <<files, folders, settings, remote, remoteTags, reflection,
          sourceIdToFileName, today, persisted, pc, cycle, notices, hist>>

-----------------------------------------------------------------------------
(* Characters and strings                                                  *)

NL == "\n"
SP == " "
GT == ">"
TAB == "\t"
DOLLAR == "$"
AMP == "&"
HIDDEN_CHAR == "U+200B"

\* JavaScript's \s and String.prototype.trim: U+200B is not white space.
WhiteSpace == {SP, NL, TAB}
\* The characters "." does not match without the s flag.
LineTerminators == {NL}

\* A field the service left out (undefined); `${v}` and replace(.., v) print
\* it as the text "undefined".
Undefined == <<"(undefined)">>
JsString(v) == IF v = Undefined THEN <<"undefined">> ELSE v
\* JavaScript truthiness of a string-or-undefined value.
Truthy(v) == v # Undefined /\ v # <<>>

\* A value computed once and used under a name.
Bind(x, F(_)) == F(x)

RECURSIVE Flatten(_)
Flatten(ss) == IF ss = <<>> THEN <<>> ELSE Head(ss) \o Flatten(Tail(ss))

\* Index of the first occurrence of token x in s at or after i, 0 if none.
RECURSIVE IndexFrom(_, _, _)
IndexFrom(s, x, i) ==
    IF i > Len(s) THEN 0
    ELSE IF s[i] = x THEN i
    ELSE IndexFrom(s, x, i + 1)

Includes(s, x) == IndexFrom(s, x, 1) # 0

\* Array.prototype.includes on an array of strings.
ArrayIncludes(arr, str) == \E k \in 1..Len(arr) : arr[k] = str

\* String.prototype.includes(sub) for a sub-string given as tokens.
HasSubstring(s, sub) ==
    \E k \in 0..(Len(s) - Len(sub)) : SubSeq(s, k + 1, k + Len(sub)) = sub

\* Number of places at which sub occurs in s.
CountOccurrences(s, sub) ==
    Cardinality({k \in 0..(Len(s) - Len(sub)) : SubSeq(s, k + 1, k + Len(sub)) = sub})

RECURSIVE TrimStart(_)
TrimStart(s) ==
    IF s # <<>> /\ Head(s) \in WhiteSpace THEN TrimStart(Tail(s)) ELSE s

RECURSIVE TrimEnd(_)
TrimEnd(s) ==
    IF s # <<>> /\ s[Len(s)] \in WhiteSpace
    THEN TrimEnd(SubSeq(s, 1, Len(s) - 1)) ELSE s

\* String.prototype.trim
Trim(s) == TrimEnd(TrimStart(s))

\* The replacement patterns String.prototype.replace expands in a
\* replacement string, also when the pattern is a string: "$$" is one "$",
\* "$&" is the matched text.
RECURSIVE ExpandReplacement(_, _)
ExpandReplacement(repl, matched) ==
    IF repl = <<>> THEN <<>>
    ELSE IF Len(repl) >= 2 /\ repl[1] = DOLLAR /\ repl[2] = DOLLAR
         THEN <<DOLLAR>> \o ExpandReplacement(SubSeq(repl, 3, Len(repl)), matched)
    ELSE IF Len(repl) >= 2 /\ repl[1] = DOLLAR /\ repl[2] = AMP
         THEN matched \o ExpandReplacement(SubSeq(repl, 3, Len(repl)), matched)
    ELSE <<Head(repl)>> \o ExpandReplacement(Tail(repl), matched)

\* str.replace(placeholder, value) with a string pattern: the first
\* occurrence only.
ReplaceFirst(str, placeholder, value) ==
    LET k == IndexFrom(str, placeholder, 1) IN
    IF k = 0 THEN str
    ELSE SubSeq(str, 1, k - 1) \o ExpandReplacement(value, <<placeholder>>)
         \o SubSeq(str, k + 1, Len(str))

\* str.replace(new RegExp(placeholder, "g"), value): every occurrence.
RECURSIVE ReplaceAll(_, _, _)
ReplaceAll(str, placeholder, value) ==
    IF str = <<>> THEN <<>>
    ELSE IF Head(str) = placeholder
         THEN ExpandReplacement(value, <<placeholder>>)
              \o ReplaceAll(Tail(str), placeholder, value)
    ELSE <<Head(str)>> \o ReplaceAll(Tail(str), placeholder, value)

-----------------------------------------------------------------------------
(* toSafeFileName and firstLetterUppercase                                 *)

UpperLetters ==
    <<"A", "B", "C", "D", "E", "F", "G", "H", "I", "J", "K", "L", "M",
      "N", "O", "P", "Q", "R", "S", "T", "U", "V", "W", "X", "Y", "Z">>
LowerLetters ==
    <<"a", "b", "c", "d", "e", "f", "g", "h", "i", "j", "k", "l", "m",
      "n", "o", "p", "q", "r", "s", "t", "u", "v", "w", "x", "y", "z">>

\* One character of String.prototype.toLowerCase / toUpperCase.
ToLowerChar(c) ==
    IF \E k \in 1..Len(UpperLetters) : UpperLetters[k] = c
    THEN LowerLetters[CHOOSE k \in 1..Len(UpperLetters) : UpperLetters[k] = c]
    ELSE c

ToUpperChar(c) ==
    IF \E k \in 1..Len(LowerLetters) : LowerLetters[k] = c
    THEN UpperLetters[CHOOSE k \in 1..Len(LowerLetters) : LowerLetters[k] = c]
    ELSE c

ToLowerCase(s) == [k \in 1..Len(s) |-> ToLowerChar(s[k])]

\* str.charAt(0).toUpperCase() + str.slice(1).toLowerCase()
firstLetterUppercase(str) ==
    IF str = <<>> THEN <<>>
    ELSE <<ToUpperChar(str[1])>> \o ToLowerCase(Tail(str))

\* The class [\\/:"*?<>|] of toSafeFileName.
ReservedChars == {"\\", "/", ":", "\"", "*", "?", "<", ">", "|"}
\* Characters with code < 32 or code = 127.
ControlChars == {NL, TAB, "DEL"}

\* result.replace(/[\\/:"*?<>|]/g, replacement)
RECURSIVE ReplaceReserved(_, _)
ReplaceReserved(s, rep) ==
    IF s = <<>> THEN <<>>
    ELSE (IF Head(s) \in ReservedChars
          THEN ExpandReplacement(rep, <<Head(s)>>) ELSE <<Head(s)>>)
         \o ReplaceReserved(Tail(s), rep)

\* split("").map(char => code < 32 || code === 127 ? replacement : char).join("")
RECURSIVE ReplaceControl(_, _)
ReplaceControl(s, rep) ==
    IF s = <<>> THEN <<>>
    ELSE (IF Head(s) \in ControlChars THEN rep ELSE <<Head(s)>>)
         \o ReplaceControl(Tail(s), rep)

\* result.replace(/\s+/g, " ")
RECURSIVE CollapseSpaces(_)
CollapseSpaces(s) ==
    IF s = <<>> THEN <<>>
    ELSE IF Head(s) \in WhiteSpace
         THEN <<SP>> \o CollapseSpaces(TrimStart(s))
    ELSE <<Head(s)>> \o CollapseSpaces(Tail(s))

\* result.replace(/\s/g, replacement)
RECURSIVE ReplaceSpaces(_, _)
ReplaceSpaces(s, rep) ==
    IF s = <<>> THEN <<>>
    ELSE (IF Head(s) \in WhiteSpace
          THEN ExpandReplacement(rep, <<Head(s)>>) ELSE <<Head(s)>>)
         \o ReplaceSpaces(Tail(s), rep)

\* Length of the match of the pattern `${escapedReplacement}+` at the start
\* of s (0 if none): the replacement's characters, the last one repeated.
RECURSIVE RunOfLast(_, _)
RunOfLast(s, c) == IF s # <<>> /\ Head(s) = c THEN 1 + RunOfLast(Tail(s), c) ELSE 0

MatchRepPlus(s, rep) ==
    LET n == Len(rep) IN
    IF Len(s) >= n /\ SubSeq(s, 1, n) = rep
    THEN n + RunOfLast(SubSeq(s, n + 1, Len(s)), rep[n])
    ELSE 0

\* result.replace(new RegExp(`${escapedReplacement}+`, "g"), replacement)
RECURSIVE CollapseReplacement(_, _)
CollapseReplacement(s, rep) ==
    IF s = <<>> THEN <<>>
    ELSE LET m == MatchRepPlus(s, rep) IN
         IF m > 0
         THEN ExpandReplacement(rep, SubSeq(s, 1, m))
              \o CollapseReplacement(SubSeq(s, m + 1, Len(s)), rep)
         ELSE <<Head(s)>> \o CollapseReplacement(Tail(s), rep)

\* Leftmost start of a match of `${escapedReplacement}+$` in s at or after i
\* (0 if none).
RECURSIVE TrailingMatch(_, _, _)
TrailingMatch(s, rep, i) ==
    IF i > Len(s) THEN 0
    ELSE LET rest == SubSeq(s, i, Len(s)) IN
         IF MatchRepPlus(rest, rep) = Len(rest) THEN i
         ELSE TrailingMatch(s, rep, i + 1)

\* result.replace(new RegExp(`^${escapedReplacement}+|${escapedReplacement}+$`, "g"), "")
TrimReplacement(s, rep) ==
    LET lead  == MatchRepPlus(s, rep)
        s1    == SubSeq(s, lead + 1, Len(s))
        trail == TrailingMatch(s1, rep, 1)
    IN  IF trail = 0 THEN s1 ELSE SubSeq(s1, 1, trail - 1)

\* opts.replacement: the setting, or " " when the setting is empty.
SafeReplacement(st) ==
    IF st.sourceFilenameReplaceSpaces # <<>>
    THEN st.sourceFilenameReplaceSpaces ELSE <<SP>>

toSafeFileName(st, str) ==
    LET rep == SafeReplacement(st)
        r1  == IF st.sourceFilenameLowercase THEN ToLowerCase(str) ELSE str
        r2  == ReplaceReserved(r1, rep)
        r3  == ReplaceControl(r2, rep)
        r4  == CollapseSpaces(r3)
        r5  == Trim(r4)
        r6  == ReplaceSpaces(r5, rep)
        r7  == CollapseReplacement(r6, rep)
    IN  TrimReplacement(r7, rep)

-----------------------------------------------------------------------------
(* Content-identity tracker: extraction of what a file already holds       *)

\* extractExistingQuotes: the matches of />\s(.+?)\n/g from index i on, each
\* capture trimmed.  The lazy group stops at the first line break.
RECURSIVE FixedScan(_, _)
FixedScan(t, i) ==
    IF i + 3 > Len(t) THEN <<>>
    ELSE IF /\ t[i] = GT
            /\ t[i + 1] \in WhiteSpace
            /\ t[i + 2] \notin LineTerminators
            /\ IndexFrom(t, NL, i + 3) # 0
         THEN LET e == IndexFrom(t, NL, i + 3) IN
              <<Trim(SubSeq(t, i + 2, e - 1))>> \o FixedScan(t, e + 1)
    ELSE FixedScan(t, i + 1)

extractExistingQuotes(fileContent) == FixedScan(fileContent, 1)

\* extractExistingQuotesUsingTemplate: the matches of
\* /\u200B(.+?)\u200B/g from index i on, each capture trimmed.  Without the
\* s flag the group does not cross a line break.
RECURSIVE MarkerScan(_, _)
MarkerScan(t, i) ==
    IF i + 2 > Len(t) THEN <<>>
    ELSE LET e == IndexFrom(t, HIDDEN_CHAR, i + 2) IN
         IF /\ t[i] = HIDDEN_CHAR
            /\ e # 0
            /\ \A k \in (i + 1)..(e - 1) : t[k] \notin LineTerminators
         THEN <<Trim(SubSeq(t, i + 1, e - 1))>> \o MarkerScan(t, e + 1)
         ELSE MarkerScan(t, i + 1)

extractExistingQuotesUsingTemplate(fileContent) == MarkerScan(fileContent, 1)

DailyReflectionHeading == "## Daily Reflection"

\* extractExistingDailyReflectionUsingTemplate: /\u200B(.*?)\u200B/gs finds a
\* match iff the text holds two markers.
extractExistingDailyReflectionUsingTemplate(fileContent, template) ==
    IF template = <<>> THEN Includes(fileContent, DailyReflectionHeading)
    ELSE LET k == IndexFrom(fileContent, HIDDEN_CHAR, 1) IN
         k # 0 /\ IndexFrom(fileContent, HIDDEN_CHAR, k + 1) # 0

-----------------------------------------------------------------------------
(* Quote rendering                                                         *)

ColorKeys == <<"yellow", "blue", "pink", "orange">>

DEFAULT_COLOR_MAP ==
    [k \in {"yellow", "blue", "pink", "orange"} |->
        CASE k = "yellow" -> <<"#ffd700">>
          [] k = "blue"   -> <<"#4682b4">>
          [] k = "pink"   -> <<"#ff69b4">>
          [] k = "orange" -> <<"#ffa500">>]

\* The colour loop of applyData and appendToDailyNote: the hex of the first
\* key of DEFAULT_COLOR_MAP the lowercased colour includes, "" if none or if
\* styling is off or the colour is empty.
ColorHex(st, color) ==
    IF st.quoteColorMode = "none" \/ ~Truthy(color) THEN <<>>
    ELSE LET lower == ToLowerCase(color)
             hits  == {k \in 1..Len(ColorKeys) : HasSubstring(lower, <<ColorKeys[k]>>)}
         IN  IF hits = {} THEN <<>>
             ELSE LET key == ColorKeys[CHOOSE k \in hits : \A j \in hits : k <= j] IN
                  IF st.customColors[key] # <<>> THEN st.customColors[key]
                  ELSE DEFAULT_COLOR_MAP[key]

\* `<div style="background-color: ${colorHex}; padding: 12px;">${inner}</div>`
\* or `<span style="color: ${colorHex};">${inner}</span>`, or inner itself.
Styled(st, color, inner) ==
    LET hex == ColorHex(st, color) IN
    IF hex = <<>> THEN inner
    ELSE IF st.quoteColorMode = "background"
         THEN <<"<div style=\"background-color: ">> \o hex
              \o <<"; padding: 12px;\"", GT>> \o inner \o <<"</div", GT>>
    ELSE IF st.quoteColorMode = "text"
         THEN <<"<span style=\"color: ">> \o hex \o <<";\"", GT>>
              \o inner \o <<"</span", GT>>
    ELSE inner

\* One quote through the quote template (applyData, template branch).
RenderQuoteTemplate(st, quote) ==
    LET hiddenContent == <<HIDDEN_CHAR>> \o quote.content \o <<HIDDEN_CHAR>>
        styledContent == Styled(st, quote.color, hiddenContent)
        t1 == ReplaceFirst(st.quoteTemplate, "{{content}}", styledContent)
        t2 == ReplaceFirst(t1, "{{note}}", IF Truthy(quote.note) THEN quote.note ELSE <<>>)
        t3 == ReplaceFirst(t2, "{{location}}", JsString(quote.location))
        t4 == ReplaceFirst(t3, "{{color}}", IF Truthy(quote.color) THEN quote.color ELSE <<>>)
    IN  <<NL>> \o t4

\* One quote in the fixed layout (applyData, else branch).
RenderQuoteFixed(st, quote) ==
    LET styledContent == <<GT, SP>> \o Styled(st, quote.color, quote.content) IN
    <<"---", NL, NL>> \o styledContent \o <<NL, NL>>
    \o (IF Truthy(quote.note) THEN <<"**Note:** ">> \o quote.note \o <<NL, NL>> ELSE <<>>)
    \o <<"**Location:** ">> \o JsString(quote.location) \o <<NL, NL>>
    \o (IF Truthy(quote.color) THEN <<"**Color:** ">> \o quote.color \o <<NL, NL>> ELSE <<>>)

RenderQuote(st, quote) ==
    IF st.quoteTemplate # <<>> THEN RenderQuoteTemplate(st, quote)
    ELSE RenderQuoteFixed(st, quote)

\* The identity set the merge reads from a file's text.
ExistingQuotes(st, fileData) ==
    IF st.quoteTemplate # <<>> THEN extractExistingQuotesUsingTemplate(fileData)
    ELSE extractExistingQuotes(fileData)

-----------------------------------------------------------------------------
(* Source Merge Engine: applyData                                          *)

SOURCE_TEMPLATE_OPTIONS ==
    <<"title", "subtitle", "author", "type", "origin", "asin", "ignored", "createdAt">>

\* `{{${key}}}`
Placeholder ==
    [title |-> "{{title}}", subtitle |-> "{{subtitle}}", author |-> "{{author}}",
     type |-> "{{type}}", origin |-> "{{origin}}", asin |-> "{{asin}}",
     ignored |-> "{{ignored}}", createdAt |-> "{{createdAt}}"]

\* typeof value === "string" ? value : String(value)
FieldString(item, key) ==
    IF key = "ignored" THEN (IF item.ignored THEN <<"true">> ELSE <<"false">>)
    ELSE JsString(item[key])

\* SOURCE_TEMPLATE_OPTIONS.reduce(... acc.replace(new RegExp(`{{${key}}}`, "g"), ...))
\* from option k on.
RECURSIVE ReduceOptions(_, _, _)
ReduceOptions(acc, item, k) ==
    IF k > Len(SOURCE_TEMPLATE_OPTIONS) THEN acc
    ELSE LET key == SOURCE_TEMPLATE_OPTIONS[k] IN
         ReduceOptions(ReplaceAll(acc, Placeholder[key], FieldString(item, key)), item, k + 1)

\* The file name of a source: the filename template, rendered and made safe
\* (syncData and applyData compute it the same way).
SourceFileName(st, item) ==
    toSafeFileName(st, ReduceOptions(st.sourceFilenameTemplate, item, 1))

RootFolder == <<"Unearthed">>
TagsFolder == <<"T", "a", "g", "s">>

\* Mutant of TypeFolder: the type is taken as the service sends it.
TypeFolder_Raw(item) == JsString(item.type) \o <<"s">>

\* `${parentFolderPath}${firstLetterUppercase(item.type)}s/`
TypeFolder(item) == firstLetterUppercase(JsString(item.type)) \o <<"s">>

\* A path below the root folder: <root>/<folder>/<name>.md
Path(folder, name) == [folder |-> folder, name |-> name]

SourcePath(st, item) == Path(TypeFolder(item), SourceFileName(st, item))

\* window.moment(stringValue).format("YYYY-MM-DD")
FormatDate(stringValue) ==
    IF stringValue = <<"2024-05-01T10:00:00Z">> THEN <<"2024-05-01">>
    ELSE <<"Invalid date">>

\* The matches of /{{createdAt(\w*|\|date:\w*-\w*-\w*)}}/g in acc, in order.
CreatedAtTokens == {"{{createdAt}}", "{{createdAt|date:YYYY-MM-DD}}"}
CreatedAtMatches(acc) == SelectSeq(acc, LAMBDA tok : tok \in CreatedAtTokens)

\* The createdAt step of the source-template reduce: each match replaced in
\* turn; with no match the callback returns nothing.
RECURSIVE ReplaceCreatedAt(_, _, _)
ReplaceCreatedAt(acc, matches, stringValue) ==
    IF matches = <<>> THEN acc
    ELSE LET template == Head(matches)
             value == IF template = "{{createdAt|date:YYYY-MM-DD}}"
                      THEN FormatDate(stringValue) ELSE stringValue
         IN  ReplaceCreatedAt(ReplaceFirst(acc, template, value), Tail(matches), stringValue)

\* item[key] ?? "" and then the string conversion.
FieldOrEmpty(item, key) ==
    IF key # "ignored" /\ item[key] = Undefined THEN <<>> ELSE FieldString(item, key)

RECURSIVE ReduceSourceTemplate(_, _, _)
ReduceSourceTemplate(acc, item, k) ==
    LET key == SOURCE_TEMPLATE_OPTIONS[k] IN
    IF key = "createdAt"
    THEN LET createdAtValues == CreatedAtMatches(acc) IN
         IF createdAtValues # <<>>
         THEN ReplaceCreatedAt(acc, createdAtValues, FieldOrEmpty(item, key))
         ELSE <<>>      \* the reduce yields undefined, and `?? ""` makes it ""
    ELSE ReduceSourceTemplate(
             ReplaceAll(acc, Placeholder[key], FieldOrEmpty(item, key)), item, k + 1)

\* fileContent: the header of a new source file.
SourceHeader(st, item) ==
    IF st.sourceTemplate # <<>>
    THEN ReduceSourceTemplate(st.sourceTemplate, item, 1)
    ELSE <<"# ">> \o JsString(item.title) \o <<NL, NL, "**Author:** [[">>
         \o JsString(item.author) \o <<"]]", NL, NL, "**Source:** ">>
         \o firstLetterUppercase(JsString(item.origin)) \o <<NL, NL>>

\* What may fail in the file storage during one operation: the paths whose
\* read throws, the paths whose create/modify throws, the folders whose
\* createFolder throws.
NoFault == [read |-> {}, write |-> {}, mkdir |-> {}]

\* createFolder unless the folder is there; a failure is swallowed.
EnsureFolder(fds, folder, fault) ==
    IF (\E k \in 1..Len(fds) : fds[k] = folder) \/ folder \in fault.mkdir
    THEN fds ELSE Append(fds, folder)

RECURSIVE EnsureTypeFolders(_, _, _, _)
EnsureTypeFolders(fds, data, i, fault) ==
    IF i > Len(data) THEN fds
    ELSE EnsureTypeFolders(EnsureFolder(fds, TypeFolder(data[i]), fault), data, i + 1, fault)

HasFolder(fds, folder) == \E k \in 1..Len(fds) : fds[k] = folder

\* Mutant of QuoteIsNew: the check is left out and every quote is appended.
QuoteIsNew_NoCheck(existingQuotes, quote) == TRUE

\* if (!existingQuotes.includes(quote.content))
QuoteIsNew(existingQuotes, quote) == ~ArrayIncludes(existingQuotes, quote.content)

\* The quotes the loop appends, in the order of item.quotes.  existingQuotes
\* is read once from the file and not extended by the loop.
QuotesToAppend(existingQuotes, quotes) ==
    SelectSeq(quotes, LAMBDA q : QuoteIsNew(existingQuotes, q))

RenderAll(st, quotes) == Flatten([k \in 1..Len(quotes) |-> RenderQuote(st, quotes[k])])

\* The content applyData starts from: the file's text if the file is there
\* and its read succeeds, the header otherwise (also in the catch of a read
\* that throws).
StartContent(fs, st, item, path, fault) ==
    IF path \in DOMAIN fs /\ path \notin fault.read THEN fs[path]
    ELSE SourceHeader(st, item)

ReadExistingQuotes(fs, st, path, fault) ==
    IF path \in DOMAIN fs /\ path \notin fault.read THEN ExistingQuotes(st, fs[path])
    ELSE <<>>

\* vault.modify for a file that is there, vault.create otherwise; both may
\* throw, and create throws when the folder is missing.
WriteSucceeds(fs, fds, path, fault) ==
    /\ path \notin fault.write
    /\ (path \in DOMAIN fs \/ HasFolder(fds, path.folder))

WriteFile(fs, path, content) ==
    [p \in DOMAIN fs \cup {path} |-> IF p = path THEN content ELSE fs[p]]

\* One iteration of the loop of applyData: the files after it and what it did.
ApplyItem(fs, fds, st, item, fault) ==
    Bind(SourcePath(st, item), LAMBDA path :
    Bind(QuotesToAppend(ReadExistingQuotes(fs, st, path, fault), item.quotes), LAMBDA toAppend :
    Bind(WriteSucceeds(fs, fds, path, fault), LAMBDA ok :
        [files |-> IF ok
                   THEN WriteFile(fs, path, StartContent(fs, st, item, path, fault)
                                            \o RenderAll(st, toAppend))
                   ELSE fs,
         entry |-> [id |-> item.id, path |-> path, existed |-> path \in DOMAIN fs,
                    appended |-> [k \in 1..Len(toAppend) |-> toAppend[k].content],
                    wrote |-> ok]])))

\* Mutant of NextAfterWrite: a failed write is not caught and ends the loop.
NextAfterWrite_Rethrow(i, n, wrote) == IF wrote THEN i + 1 ELSE n + 1

\* The index the loop goes on with after the write of item i of n: the catch
\* around create/modify swallows a failure.
NextAfterWrite(i, n, wrote) == i + 1

RECURSIVE ApplyLoop(_, _, _, _, _, _, _)
ApplyLoop(fs, fds, st, data, i, fault, log) ==
    IF i > Len(data) THEN [files |-> fs, log |-> log]
    ELSE Bind(ApplyItem(fs, fds, st, data[i], fault), LAMBDA r :
         ApplyLoop(r.files, fds, st, data, NextAfterWrite(i, Len(data), r.entry.wrote),
                   fault, Append(log, r.entry)))

\* applyData(plugin, data): the folders, then every source in turn.
applyData(fs, fds, st, data, fault) ==
    Bind(EnsureTypeFolders(fds, data, 1, fault), LAMBDA fds1 :
    Bind(ApplyLoop(fs, fds1, st, data, 1, fault, <<>>), LAMBDA r :
        [files |-> r.files, folders |-> fds1, log |-> r.log]))

-----------------------------------------------------------------------------
(* Tag Cross-Linker: fileExists and applyTags                              *)

\* `${fileName}-${counter}`
Suffixed(fileName, counter) == fileName \o <<"-", ToString(counter)>>

\* while (files.files.includes(`${folder}/${newFileName}.md`)) counter++
RECURSIVE FreeCounter(_, _, _, _)
FreeCounter(fs, folder, fileName, counter) ==
    IF Path(folder, Suffixed(fileName, counter)) \in DOMAIN fs
    THEN FreeCounter(fs, folder, fileName, counter + 1)
    ELSE counter

\* The loop of fileExists over the filtered folders, from folder k on.
RECURSIVE FileExistsLoop(_, _, _, _, _)
FileExistsLoop(fs, filteredFolders, k, counter, fileName) ==
    IF k > Len(filteredFolders) THEN fileName
    ELSE LET folder == filteredFolders[k] IN
         IF Path(folder, fileName) \in DOMAIN fs
         THEN LET c == FreeCounter(fs, folder, fileName, counter) IN
              IF k = Len(filteredFolders) THEN Suffixed(fileName, c)
              ELSE FileExistsLoop(fs, filteredFolders, k + 1, c, fileName)
         ELSE FileExistsLoop(fs, filteredFolders, k + 1, counter, fileName)

\* listFolders: the folders below the root folder, in the order of the listing.
listFolders(fds) == fds

\* fileExists(plugin, fileName): the Tags folder is filtered out of the
\* folders that are searched for a file of that name.
fileExists(fs, fds, fileName) ==
    LET filteredFolders == SelectSeq(listFolders(fds), LAMBDA folder : folder # TagsFolder)
    IN  FileExistsLoop(fs, filteredFolders, 1, 1, fileName)

\* A set of file names as a list, in the order the storage lists them.
RECURSIVE Listing(_)
Listing(names) ==
    IF names = {} THEN <<>>
    ELSE LET n == CHOOSE x \in names : TRUE IN <<n>> \o Listing(names \ {n})

\* file.split("/").pop()?.replace(".md", "") || "Unknown" for the file of
\* that name: the first ".md" of the name with its extension is taken out.
FileStem(name) ==
    IF ReplaceFirst(name \o <<".md">>, ".md", <<>>) = <<>> THEN <<"Unknown">>
    ELSE ReplaceFirst(name \o <<".md">>, ".md", <<>>)

\* foundSources without duplicates: the files below the root folder, outside
\* every folder whose name has "Tags" in it, whose text includes one of the
\* tag's source ids.
FoundSources(fs, fds, tag) ==
    Listing({FileStem(p.name) : p \in {q \in DOMAIN fs :
        /\ HasFolder(fds, q.folder)
        /\ ~HasSubstring(q.folder, TagsFolder)
        /\ \E k \in 1..Len(tag.sourceIds) : HasSubstring(fs[q], <<tag.sourceIds[k]>>)}})

\* `- [[${fileName}]]\n` for every source id the map knows.
MappedSources(map, sourceIds) ==
    Flatten([k \in 1..Len(sourceIds) |->
        IF sourceIds[k] \in DOMAIN map /\ map[sourceIds[k]] # <<>>
        THEN <<"- [[">> \o map[sourceIds[k]] \o <<"]]", NL>> ELSE <<>>])

\* The "## Sources" section of a tag file.
TagSources(fs, fds, st, map, tag) ==
    LET found  == FoundSources(fs, fds, tag)
        mapped == MappedSources(map, tag.sourceIds)
    IN  IF found # <<>>
        THEN Flatten([k \in 1..Len(found) |-> <<"- [[">> \o found[k] \o <<"]]", NL>>])
        ELSE IF mapped # <<>> THEN mapped
        ELSE Flatten([k \in 1..Len(tag.sourceIds) |->
                 <<"- [[">> \o toSafeFileName(st, <<tag.sourceIds[k]>>) \o <<"]]", NL>>])

\* fileContent of a tag file.
TagContent(fs, fds, st, map, tag) ==
    <<"# ">> \o tag.title \o <<NL, NL>>
    \o (IF tag.description # <<>> THEN tag.description \o <<NL, NL>> ELSE <<>>)
    \o (IF Len(tag.sourceIds) > 0
        THEN <<"## Sources", NL, NL>> \o TagSources(fs, fds, st, map, tag) ELSE <<>>)

\* Mutant of TagFileThere: the early check is left out, so that the write at
\* the end of the iteration modifies a file that is there.
TagFileThere_NoCheck(fs, filePath) == FALSE

\* const tagFile = getAbstractFileByPath(filePath); if (tagFile instanceof TFile) continue;
TagFileThere(fs, filePath) == filePath \in DOMAIN fs

\* The path a tag resolves to.
TagPath(fs, fds, st, tag) ==
    Path(TagsFolder, fileExists(fs, fds, toSafeFileName(st, tag.title)))

\* One iteration of the loop of applyTags.
ApplyTag(fs, fds, st, map, tag, fault) ==
    Bind(TagPath(fs, fds, st, tag), LAMBDA filePath :
    IF TagFileThere(fs, filePath) THEN fs
    ELSE IF WriteSucceeds(fs, fds, filePath, fault)
         THEN WriteFile(fs, filePath, TagContent(fs, fds, st, map, tag))
         ELSE fs)       \* modify/create threw, and so does the create of the catch

RECURSIVE ApplyTagsLoop(_, _, _, _, _, _, _)
ApplyTagsLoop(fs, fds, st, map, data, i, fault) ==
    IF i > Len(data) THEN fs
    ELSE ApplyTagsLoop(ApplyTag(fs, fds, st, map, data[i], fault),
                       fds, st, map, data, i + 1, fault)

\* applyTags(plugin, data): the Tags folder, then every tag in turn.
applyTags(fs, fds, st, map, data, fault) ==
    Bind(EnsureFolder(fds, TagsFolder, fault), LAMBDA fds1 :
        [files |-> ApplyTagsLoop(fs, fds1, st, map, data, 1, fault), folders |-> fds1])

-----------------------------------------------------------------------------
(* The sync cycle: checkConnection, the fetches, syncData                  *)

\* What the network does to the requests of one operation: the connect
\* handshake answers 200, another status, or fails (error, timeout); a fetch
\* delivers or fails; the reflection fetch may also deliver no reflection.
ConnectOutcomes == {"200", "status", "error"}
FetchOutcomes == {"ok", "error"}
ReflectionOutcomes == {"ok", "none", "error"}
NetOk == [connect |-> "200", sources |-> "ok", tags |-> "ok", reflection |-> "ok"]

\* checkConnection(plugin): a handshake only while no secret is cached.
checkConnection(st, net) ==
    IF st.secret # ""
    THEN [ok |-> TRUE, settings |-> st, notices |-> <<"Checking connection...">>]
    ELSE IF net.connect = "200"
    THEN [ok |-> TRUE, settings |-> [st EXCEPT !.secret = "secret"],
          notices |-> <<"Checking connection...", "Connected successfully!">>]
    ELSE IF net.connect = "status"
    THEN [ok |-> FALSE, settings |-> st,
          notices |-> <<"Checking connection...", "Failed to connect to Unearthed. Status: ",
                        "Could not connect to Unearthed. Check your API key and internet connection.">>]
    ELSE [ok |-> FALSE, settings |-> st,
          notices |-> <<"Checking connection...",
                        "Could not connect to Unearthed. Check your API key and internet connection.">>]

\* fetchTags(plugin): a failure is caught and gives no tags.
fetchTags(tagsData, net) == IF net.tags = "ok" THEN tagsData ELSE <<>>

\* Mutant of MapFileName: the rendered template is recorded as it is.
MapFileName_Unsafe(st, item) == ReduceOptions(st.sourceFilenameTemplate, item, 1)

\* const safeFileName = toSafeFileName(plugin, fileName) in syncData, with
\* fileName the filename template rendered for the item.
MapFileName(st, item) ==
    toSafeFileName(st, ReduceOptions(st.sourceFilenameTemplate, item, 1))

\* sourceIdToFileName after clear() and the set() of every item.
FileNameMap(st, data) ==
    [id \in {data[k].id : k \in 1..Len(data)} |->
        MapFileName(st, data[CHOOSE k \in 1..Len(data) :
            data[k].id = id /\ \A j \in (k + 1)..Len(data) : data[j].id # id])]

\* Where the network stops a cycle that starts with settings st: at the
\* handshake, at the fetch of the sources, or nowhere.
CycleFailure(st, net) ==
    IF st.secret = "" /\ net.connect # "200" THEN "connect"
    ELSE IF net.sources # "ok" THEN "sources"
    ELSE "none"

\* Mutant of SyncFailed: the catch of syncData shows its notice and does not
\* throw the error again.
SyncFailed_Swallowed(fs, fds, st, map, noticesSoFar) ==
    [files |-> fs, folders |-> fds, settings |-> st, map |-> map,
     notices |-> noticesSoFar \o <<"Sync failed. Check console for details.">>,
     rejected |-> FALSE, log |-> <<>>]

\* The cycle did not get to its data: nothing is written and syncData throws.
SyncFailed(fs, fds, st, map, noticesSoFar) ==
    [files |-> fs, folders |-> fds, settings |-> st, map |-> map,
     notices |-> noticesSoFar \o <<"Sync failed. Check console for details.">>,
     rejected |-> TRUE, log |-> <<>>]

\* syncData(plugin, applyTheData) after its checkConnection: the fetches and
\* the application of the data, with the notices so far.
syncDataFetched(fs, fds, st, map, data, tagsData, net, fault, applyTheData, noticesSoFar) ==
    IF net.sources # "ok"
    THEN SyncFailed(fs, fds, st, map, noticesSoFar \o <<"Fetching sources...">>)
    ELSE Bind(fetchTags(tagsData, net), LAMBDA tags :
         Bind(IF data # <<>> /\ applyTheData
              THEN applyData(fs, fds, st, data, fault)
              ELSE [files |-> fs, folders |-> fds, log |-> <<>>], LAMBDA a :
         Bind(FileNameMap(st, data), LAMBDA map1 :
         Bind(IF tags # <<>> /\ applyTheData
              THEN applyTags(a.files, a.folders, st, map1, tags, fault)
              ELSE [files |-> a.files, folders |-> a.folders], LAMBDA t :
             [files |-> t.files, folders |-> t.folders, settings |-> st,
              map |-> map1,
              notices |-> noticesSoFar \o <<"Fetching sources...", "Fetching tags...">>
                  \o (IF data # <<>> THEN <<"Processing sources...">> ELSE <<>>)
                  \o (IF data # <<>> /\ applyTheData
                      THEN <<"Creating/updating source files...">> ELSE <<>>)
                  \o (IF tags # <<>> /\ applyTheData THEN <<"Processing tags...">> ELSE <<>>),
              rejected |-> FALSE, log |-> a.log]))))

\* syncData(plugin, applyTheData)
syncData(fs, fds, st, map, data, tagsData, net, fault, applyTheData) ==
    Bind(checkConnection(st, net), LAMBDA c :
    IF ~c.ok THEN SyncFailed(fs, fds, c.settings, map, c.notices)
    ELSE syncDataFetched(fs, fds, c.settings, map, data, tagsData, net, fault,
                         applyTheData, c.notices))

-----------------------------------------------------------------------------
(* Daily Reflection Injector                                               *)

\* const DAILY_REFLECTION_TEMPLATE_EXAMPLE
DAILY_REFLECTION_TEMPLATE_EXAMPLE ==
    <<NL, DailyReflectionHeading, NL, NL, GT, SP, "{{quote}}", NL, NL,
      "**", "{{type}}", ":** [[", "{{source}}", "]]", NL,
      "**Author:** [[", "{{author}}", "]]", NL,
      "**Location:** ", "{{location}}", NL, NL, "**Note:** ", "{{note}}", NL, NL, "---", NL>>

\* window.moment(new Date()).format(dailyReflectionDateFormat) on day d.
FormattedDate(st, d) == <<st.dailyReflectionDateFormat, ToString(d)>>

\* `${dailyReflectionLocation}/${formattedDate}.md`
DailyNotePath(st, d) == Path(<<st.dailyReflectionLocation>>, FormattedDate(st, d))

\* sourceIdToFileName.get(reflection.sourceId) || reflection.source
ReflectionSourceFile(map, r) ==
    IF r.sourceId \in DOMAIN map /\ map[r.sourceId] # <<>> THEN map[r.sourceId]
    ELSE r.source

\* `> "${styledQuote}"\n\n**Type:** [[source]]\n**Author:** [[author]]\n
\* **Location:** location\n\n**Note:** note`
ReflectionBody(st, map, r) ==
    <<GT, SP, "\"">> \o Styled(st, r.color, r.quote) \o <<"\"", NL, NL, "**">>
    \o firstLetterUppercase(r.type) \o <<":** [[">> \o ReflectionSourceFile(map, r)
    \o <<"]]", NL, "**Author:** [[">> \o r.author \o <<"]]", NL, "**Location:** ">>
    \o JsString(r.location) \o <<NL, NL, "**Note:** ">> \o JsString(r.note)

\* reflectionContent: the fixed layout, or the template with the first
\* occurrence of each placeholder replaced.
ReflectionContent(st, map, r) ==
    IF st.dailyReflectionTemplate = <<>>
    THEN <<NL, "---", NL, DailyReflectionHeading, NL, NL>> \o ReflectionBody(st, map, r)
         \o <<NL, NL, "---", NL>>
    ELSE LET t1 == ReplaceFirst(st.dailyReflectionTemplate, "{{quote}}",
                                Styled(st, r.color, r.quote))
             t2 == ReplaceFirst(t1, "{{type}}", firstLetterUppercase(r.type))
             t3 == ReplaceFirst(t2, "{{source}}", ReflectionSourceFile(map, r))
             t4 == ReplaceFirst(t3, "{{author}}", r.author)
             t5 == ReplaceFirst(t4, "{{location}}", JsString(r.location))
             t6 == ReplaceFirst(t5, "{{note}}", IF Truthy(r.note) THEN r.note ELSE <<>>)
         IN  ReplaceFirst(t6, "{{dailyReflectionContent}}", ReflectionBody(st, map, r))

\* The presence check of appendToDailyNote.
ExistingReflection(st, content) ==
    IF st.dailyReflectionTemplate # <<>>
    THEN extractExistingDailyReflectionUsingTemplate(content, st.dailyReflectionTemplate)
    ELSE Includes(content, DailyReflectionHeading)

\* if (!existingReflection)
ReflectionIsNew(st, content) == ~ExistingReflection(st, content)

\* Mutant of NoteMissing: a daily note that is not there is created.
NoteMissing_Creates(fs, filePath) ==
    [files |-> WriteFile(fs, filePath, <<>>), notices |-> <<>>, threw |-> FALSE]

\* else { new Notice("Daily note does not exist"); return; }
NoteMissing(fs, filePath) ==
    [files |-> fs, notices |-> <<"Daily note does not exist">>, threw |-> FALSE]

\* appendToDailyNote(plugin, filePath, reflection): the files after it, the
\* notice it shows, and whether it threw (a read or a modify that fails).
appendToDailyNote(fs, st, map, filePath, r, fault) ==
    IF filePath \notin DOMAIN fs
    THEN NoteMissing(fs, filePath)
    ELSE IF filePath \in fault.read
    THEN [files |-> fs, notices |-> <<>>, threw |-> TRUE]
    ELSE Bind(fs[filePath], LAMBDA content :
         Bind(<<HIDDEN_CHAR>> \o ReflectionContent(st, map, r) \o <<HIDDEN_CHAR>>,
              LAMBDA hiddenReflectionContent :
             IF ~ReflectionIsNew(st, content)
             THEN [files |-> fs, notices |-> <<>>, threw |-> FALSE]
             ELSE IF filePath \in fault.write
             THEN [files |-> fs, notices |-> <<>>, threw |-> TRUE]
             ELSE [files |-> WriteFile(fs, filePath, content \o hiddenReflectionContent),
                   notices |-> <<>>, threw |-> FALSE]))

\* Mutant of ReflectionAppliesData: the injector's sync applies its data.
ReflectionAppliesData_Yes == TRUE

\* await syncData(plugin, false) in getAndAppendDailyReflection
ReflectionAppliesData == FALSE

\* The notice of the catch of getAndAppendDailyReflection.
ReflectionSyncFailed == <<"Daily reflection sync failed. Check console for details.">>

\* getAndAppendDailyReflection(plugin) on day d: the connection, a sync that
\* applies nothing, the fetch of the reflection, the injection.  Every
\* failure is caught and shown.
getAndAppendDailyReflection(fs, fds, st, map, data, tagsData, r, net, fault, d) ==
    Bind(checkConnection(st, net), LAMBDA c :
    IF ~c.ok
    THEN [files |-> fs, folders |-> fds, settings |-> c.settings, map |-> map,
          notices |-> c.notices \o ReflectionSyncFailed]
    ELSE IF c.settings.dailyReflectionLocation = ""
    THEN [files |-> fs, folders |-> fds, settings |-> c.settings, map |-> map,
          notices |-> c.notices \o <<"Please specify a Daily Note folder location">>]
    ELSE IF c.settings.dailyReflectionDateFormat = ""
    THEN [files |-> fs, folders |-> fds, settings |-> c.settings, map |-> map,
          notices |-> c.notices \o <<"Please specify a Daily Note date format">>]
    ELSE Bind(syncData(fs, fds, c.settings, map, data, tagsData, net, fault,
                       ReflectionAppliesData), LAMBDA y :
    IF y.rejected
    THEN [files |-> y.files, folders |-> y.folders, settings |-> y.settings, map |-> y.map,
          notices |-> c.notices \o y.notices \o ReflectionSyncFailed]
    ELSE IF net.reflection = "error"
    THEN [files |-> y.files, folders |-> y.folders, settings |-> y.settings, map |-> y.map,
          notices |-> c.notices \o y.notices \o ReflectionSyncFailed]
    ELSE IF net.reflection = "none"
    THEN [files |-> y.files, folders |-> y.folders, settings |-> y.settings, map |-> y.map,
          notices |-> c.notices \o y.notices \o <<"No daily reflection available">>]
    ELSE Bind(appendToDailyNote(y.files, y.settings, y.map,
                                DailyNotePath(y.settings, d), r, fault), LAMBDA a :
             [files |-> a.files, folders |-> y.folders, settings |-> y.settings, map |-> y.map,
              notices |-> c.notices \o y.notices \o a.notices
                  \o (IF a.threw THEN <<"Failed to add daily reflection">>
                      ELSE <<"Daily reflection added successfully">>)])))

-----------------------------------------------------------------------------
(* Inputs: what the remote service may send and how the plugin is set up   *)

MaxSources == 2     \* sources in the remote list
MaxQuotes == 3      \* quotes in the remote list, over all its sources
MaxRuns == 2        \* merges in one behaviour

Quote(content, note, location, color) ==
    [content |-> content, note |-> note, location |-> location, color |-> color]

QuoteA == Quote(<<"x">>, <<>>, <<"loc1">>, <<>>)                \* plain
QuoteB == Quote(<<"y">>, <<"note2">>, <<"loc2">>, <<>>)         \* with a note
QuoteC == Quote(<<"z">>, <<>>, <<"loc3">>, <<"yellow">>)        \* highlighted yellow
QuoteW == Quote(<<SP, "w">>, <<>>, <<"loc4">>, <<>>)            \* leading white space
QuoteM == Quote(<<"u", NL, "v">>, <<>>, <<"loc5">>, <<>>)       \* two lines

QuotePool == {QuoteA, QuoteB, QuoteC, QuoteW, QuoteM}

Source(id, title, type) ==
    [id |-> id, title |-> title, subtitle |-> <<>>, author |-> <<"Ann">>,
     type |-> type, origin |-> <<"k", "i", "n", "d", "l", "e">>, asin |-> <<"B00">>,
     ignored |-> FALSE, createdAt |-> <<"2024-05-01T10:00:00Z">>, quotes |-> <<>>]

\* The sources the service gets, in the order it lists them.
SourcePool ==
    <<Source("s1", <<"T", "a">>, <<"b", "o", "o", "k">>),
      Source("s2", <<"K", "a">>, <<"B", "O", "O", "K">>)>>

\* The quotes source i may get: every shape for the first source, the plain
\* one for the others.
QuotesFor(i) == IF i = 1 THEN QuotePool ELSE {QuoteA}

\* const QUOTE_TEMPLATE_EXAMPLE
QUOTE_TEMPLATE_EXAMPLE ==
    <<NL, "---", NL, GT, SP, "{{content}}", NL, NL, "**Note:** ", "{{note}}", NL,
      "**Location:** ", "{{location}}", NL, "**Color:** ", "{{color}}", NL>>

QuoteTemplates == {<<>>, QUOTE_TEMPLATE_EXAMPLE}
QuoteColorModes == {"none", "background", "text"}

\* const DEFAULT_SETTINGS
DEFAULT_SETTINGS ==
    [unearthedApiKey |-> "", autoSync |-> FALSE,
     dailyReflectionDateFormat |-> "YYYY-MM-DD",
     dailyReflectionLocation |-> "Daily Notes",
     addDailyReflection |-> FALSE,
     quoteTemplate |-> <<>>, sourceTemplate |-> <<>>,
     sourceFilenameTemplate |-> <<"{{title}}">>,
     sourceFilenameLowercase |-> TRUE,
     sourceFilenameReplaceSpaces |-> <<"-">>,
     lastSyncDate |-> 0,
     dailyReflectionTemplate |-> <<>>,
     secret |-> "",
     quoteColorMode |-> "background",
     customColors |-> DEFAULT_COLOR_MAP]

TotalQuotes(data) ==
    LET RECURSIVE Sum(_)
        Sum(i) == IF i > Len(data) THEN 0 ELSE Len(data[i].quotes) + Sum(i + 1)
    IN  Sum(1)

\* One failure of the file storage during an operation, or none.
Faults(paths) ==
    {NoFault}
    \cup {[read |-> {}, write |-> {p}, mkdir |-> {}] : p \in paths}
    \cup {[read |-> {p}, write |-> {}, mkdir |-> {}] : p \in paths}

NoReflection == [none |-> TRUE]
NoCycle == [kind |-> "none"]
\* The history the properties read: the last operation with its inputs and
\* what it did, and the days on which automatic syncs were launched and
\* completed.
NoHist ==
    [op |-> "init", fault |-> NoFault, log |-> <<>>, runs |-> 0,
     failure |-> "none", rejected |-> FALSE, base |-> <<>>, started |-> FALSE,
     doneFor |-> {}, doneOn |-> {}, input |-> <<>>, output |-> <<>>,
     tagsFetch |-> "ok", reflectionFetch |-> "ok",
     issued |-> FALSE, handshakes |-> 0, secretKey |-> ""]

-----------------------------------------------------------------------------
(* Spec: the merge engine against a remote list that grows                 *)

\* A note the user wrote by hand at the path of the first source, before the
\* first sync.
UserText == <<"my notes", NL>>
UserFile == SourcePath(DEFAULT_SETTINGS, SourcePool[1])

Init ==
    /\ \/ files = <<>> /\ folders = <<>>
       \/ files = WriteFile(<<>>, UserFile, UserText) /\ folders = <<UserFile.folder>>
    /\ \E qt \in QuoteTemplates, cm \in QuoteColorModes :
          settings = [DEFAULT_SETTINGS EXCEPT !.quoteTemplate = qt, !.quoteColorMode = cm]
    /\ remote = <<>>
    /\ remoteTags = <<>>
    /\ reflection = NoReflection
    /\ sourceIdToFileName = <<>>
    /\ today = 1
    /\ persisted = settings
    /\ pc = "idle"
    /\ cycle = NoCycle
    /\ notices = <<>>
    /\ hist = NoHist

\* The service gets a new source.
AddSource ==
    /\ hist.runs < MaxRuns
    /\ Len(remote) < MaxSources
    /\ Len(remote) < Len(SourcePool)
    /\ remote' = Append(remote, SourcePool[Len(remote) + 1])
    /\ hist' = [hist EXCEPT !.op = "remote", !.log = <<>>, !.fault = NoFault]
    /\ UNCHANGED <<files, folders, settings, remoteTags, reflection,
                   sourceIdToFileName, today, persisted, pc, cycle, notices>>

\* The user highlights one more quote in source i.
AddQuote(i, quote) ==
    /\ hist.runs < MaxRuns
    /\ TotalQuotes(remote) < MaxQuotes
    /\ remote' = [remote EXCEPT ![i].quotes = Append(@, quote)]
    /\ hist' = [hist EXCEPT !.op = "remote", !.log = <<>>, !.fault = NoFault]
    /\ UNCHANGED <<files, folders, settings, remoteTags, reflection,
                   sourceIdToFileName, today, persisted, pc, cycle, notices>>

\* applyData(plugin, data) with the remote list as data.
Merge(fault) ==
    /\ hist.runs < MaxRuns
    /\ remote # <<>>
    /\ \E r \in {applyData(files, folders, settings, remote, fault)} :
          /\ files' = r.files
          /\ folders' = r.folders
          /\ hist' = [hist EXCEPT !.op = "merge", !.fault = fault, !.log = r.log,
                                   !.runs = hist.runs + 1]
    /\ UNCHANGED <<settings, remote, remoteTags, reflection,
                   sourceIdToFileName, today, persisted, pc, cycle, notices>>

SourcePaths(st, data) == {SourcePath(st, data[k]) : k \in 1..Len(data)}

Next ==
    \/ AddSource
    \/ \E i \in 1..Len(remote) : \E quote \in QuotesFor(i) : AddQuote(i, quote)
    \/ \E fault \in Faults(SourcePaths(settings, remote)) : Merge(fault)

Spec == Init /\ [][Next]_vars

-----------------------------------------------------------------------------
(* Properties of the merge engine                                          *)

\* The sources of the remote list whose file is path p.
SourcesAt(p) == {k \in 1..Len(remote) : SourcePath(settings, remote[k]) = p}

\* C1: in every reachable state, each Source file holds each distinct quote
\* content of that Source at most once.
C1_ContentAtMostOnce ==
    \A k \in 1..Len(remote) :
        LET p == SourcePath(settings, remote[k]) IN
        p \in DOMAIN files =>
            \A j \in 1..Len(remote[k].quotes) :
                CountOccurrences(files[p], remote[k].quotes[j].content) <= 1

\* C2: a merge that follows a merge with the same remote data and settings
\* (no storage failure in either) leaves every file as it was.
C2_MergeIdempotent ==
    [][(/\ hist.op = "merge" /\ hist.fault = NoFault
        /\ hist'.op = "merge" /\ hist'.fault = NoFault) => files' = files]_vars

\* C4: a merge never writes to an existing file a text that does not start
\* with the file's previous text.
C4_ExistingTextIsPrefix ==
    [][hist'.op = "merge" =>
        \A p \in DOMAIN files :
            /\ p \in DOMAIN files'
            /\ Len(files'[p]) >= Len(files[p])
            /\ SubSeq(files'[p], 1, Len(files[p])) = files[p]]_vars

C8_WriteFailureIsolated ==
    hist.op = "merge" =>
        /\ Len(hist.log) = Len(remote)
        /\ \A k \in 1..Len(remote) :
              /\ hist.log[k].id = remote[k].id
              /\ hist.log[k].path \notin hist.fault.write =>
                    /\ hist.log[k].wrote
                    /\ hist.log[k].path \in DOMAIN files

\* C8 witness: the write of the first Source failed and the second Source,
\* after it, was written.
C8_Witness ==
    /\ hist.op = "merge"
    /\ Len(remote) = 2
    /\ hist.log[1].path \in hist.fault.write
    /\ ~hist.log[1].wrote
    /\ hist.log[2].wrote
    /\ hist.log[2].path \in DOMAIN files
    /\ hist.log[1].path \notin DOMAIN files

-----------------------------------------------------------------------------
(* SpecTags: the Tag Cross-Linker against tags that change remotely        *)

MaxTags == 3        \* tags in the remote list
MaxTagRuns == 2     \* link and sync operations in one behaviour

Tag(id, title, description, sourceIds) ==
    [id |-> id, title |-> title, description |-> description, sourceIds |-> sourceIds]

Growth == <<"G", "r", "o", "w", "t", "h">>

\* The tags the user creates, in this order: two with the same title, and one
\* with the title of the first source.
TagPool ==
    <<Tag("t1", Growth, <<>>, <<>>),
      Tag("t2", Growth, <<"second">>, <<>>),
      Tag("t3", SourcePool[1].title, <<>>, <<"s1">>)>>

TagDescriptions == {<<>>, <<"about">>}
TagSourceIds == {<<>>, <<"s1">>}

\* One failure of the file storage while tags are linked, or none.
TagFaults ==
    {NoFault,
     [read |-> {}, write |-> {Path(TagsFolder, ToLowerCase(Growth))}, mkdir |-> {}],
     [read |-> {}, write |-> {}, mkdir |-> {TagsFolder}]}

\* What the network may do to an operation that needs no reflection: all
\* requests answered, or one of them not.
SyncNets ==
    {NetOk}
    \cup {[NetOk EXCEPT !.connect = c] : c \in ConnectOutcomes}
    \cup {[NetOk EXCEPT !.sources = f] : f \in FetchOutcomes}
    \cup {[NetOk EXCEPT !.tags = f] : f \in FetchOutcomes}

\* The tags handed to applyTags by an operation, for the properties.
TagLog(tags) == [k \in 1..Len(tags) |-> [id |-> tags[k].id, title |-> tags[k].title]]

InitTags ==
    /\ files = <<>>
    /\ folders = <<>>
    /\ settings = [DEFAULT_SETTINGS EXCEPT !.unearthedApiKey = "key"]
    /\ remote \in {<<>>, <<[SourcePool[1] EXCEPT !.quotes = <<QuoteA>>]>>}
    /\ remoteTags = <<>>
    /\ reflection = NoReflection
    /\ sourceIdToFileName = <<>>
    /\ today = 1
    /\ persisted = settings
    /\ pc = "idle"
    /\ cycle = NoCycle
    /\ notices = <<>>
    /\ hist = NoHist

\* The user creates the next tag.
TagAdd ==
    /\ hist.runs < MaxTagRuns
    /\ Len(remoteTags) < MaxTags
    /\ Len(remoteTags) < Len(TagPool)
    /\ remoteTags' = Append(remoteTags, TagPool[Len(remoteTags) + 1])
    /\ hist' = [hist EXCEPT !.op = "remote", !.log = <<>>, !.fault = NoFault]
    /\ UNCHANGED <<files, folders, settings, remote, reflection,
                   sourceIdToFileName, today, persisted, pc, cycle, notices>>

\* The user changes the description and the sources of tag i, once between
\* two operations of the plugin.
TagEdit(i, description, sourceIds) ==
    /\ hist.runs < MaxTagRuns
    /\ hist.op \in {"link", "sync"}
    /\ remoteTags[i].description # description \/ remoteTags[i].sourceIds # sourceIds
    /\ remoteTags' = [remoteTags EXCEPT ![i].description = description,
                                        ![i].sourceIds = sourceIds]
    /\ hist' = [hist EXCEPT !.op = "remote", !.log = <<>>, !.fault = NoFault]
    /\ UNCHANGED <<files, folders, settings, remote, reflection,
                   sourceIdToFileName, today, persisted, pc, cycle, notices>>

\* The "Link Tags" button: syncData(plugin, false), fetchTags, applyTags.
LinkTags(net, fault) ==
    /\ hist.runs < MaxTagRuns
    /\ \E y \in {syncData(files, folders, settings, sourceIdToFileName, remote,
                           remoteTags, net, fault, FALSE)} :
       \E tags \in {IF y.rejected THEN <<>> ELSE fetchTags(remoteTags, net)} :
       \E t \in {IF tags # <<>>
                  THEN applyTags(y.files, y.folders, y.settings, y.map, tags, fault)
                  ELSE [files |-> y.files, folders |-> y.folders]} :
           /\ files' = t.files
           /\ folders' = t.folders
           /\ settings' = y.settings
           /\ persisted' = y.settings
           /\ sourceIdToFileName' = y.map
           /\ notices' = <<"Syncing and linking tags, please wait...">> \o y.notices
                  \o (IF y.rejected THEN <<>>
                      ELSE <<"Tags linked to sources successfully">>)
           /\ hist' = [hist EXCEPT !.op = "link", !.fault = fault, !.log = TagLog(tags),
                                    !.runs = hist.runs + 1,
                                    !.failure = CycleFailure(settings, net),
                                    !.rejected = y.rejected,
                                    !.tagsFetch = net.tags]
    /\ UNCHANGED <<remote, remoteTags, reflection, today, pc, cycle>>

\* The "Manual sync" button: syncData(plugin).
ManualSync(net, fault) ==
    /\ hist.runs < MaxTagRuns
    /\ \E y \in {syncData(files, folders, settings, sourceIdToFileName, remote,
                           remoteTags, net, fault, TRUE)} :
           /\ files' = y.files
           /\ folders' = y.folders
           /\ settings' = y.settings
           /\ persisted' = y.settings
           /\ sourceIdToFileName' = y.map
           /\ notices' = <<"Unearthed Sync started, please wait...">> \o y.notices
                  \o (IF y.rejected THEN <<>> ELSE <<"Unearthed Sync complete">>)
           /\ hist' = [hist EXCEPT !.op = "sync", !.fault = fault,
                                    !.log = IF y.rejected THEN <<>>
                                            ELSE TagLog(fetchTags(remoteTags, net)),
                                    !.runs = hist.runs + 1,
                                    !.failure = CycleFailure(settings, net),
                                    !.rejected = y.rejected,
                                    !.tagsFetch = net.tags]
    /\ UNCHANGED <<remote, remoteTags, reflection, today, pc, cycle>>

NextTags ==
    \/ TagAdd
    \/ \E i \in 1..Len(remoteTags) : \E d \in TagDescriptions, ids \in TagSourceIds :
          TagEdit(i, d, ids)
    \/ \E net \in SyncNets, fault \in TagFaults : LinkTags(net, fault)
    \/ \E net \in SyncNets, fault \in TagFaults : ManualSync(net, fault)

SpecTags == InitTags /\ [][NextTags]_vars

\* The files of the Tags folder.
TagFiles(fs) == {p \in DOMAIN fs : p.folder = TagsFolder}

\* C5: no link() call modifies a file that is in the Tags folder when the
\* call starts, whatever the descriptions and source ids of the tags are by
\* then.
C5_TagFilesCreateOnce ==
    [][hist'.op = "link" =>
        \A p \in TagFiles(files) : p \in DOMAIN files' /\ files'[p] = files[p]]_vars

\* C5 witness: a link() call has just handled a tag whose file is there and
\* was written before the tag got its present description.
C5_Witness ==
    /\ hist.op = "link"
    /\ hist.fault = NoFault
    /\ Len(hist.log) = 1
    /\ remoteTags[1].description = <<"about">>
    /\ TagPath(files, folders, settings, remoteTags[1]) \in DOMAIN files
    /\ ~HasSubstring(files[TagPath(files, folders, settings, remoteTags[1])], <<"about">>)

\* C6: after a link() call without storage failure, two tags of the call that
\* derive the same safe file name have two files in the Tags folder, the
\* name itself for the first and the name with "-1" for the second.
C6_SameTitleTwoFiles ==
    (hist.op = "link" /\ hist.fault = NoFault) =>
        \A k, l \in 1..Len(hist.log) :
            (k < l /\ toSafeFileName(settings, hist.log[k].title)
                        = toSafeFileName(settings, hist.log[l].title))
            => LET fileName == toSafeFileName(settings, hist.log[k].title) IN
               /\ Path(TagsFolder, fileName) \in DOMAIN files
               /\ Path(TagsFolder, Suffixed(fileName, 1)) \in DOMAIN files

-----------------------------------------------------------------------------
(* SpecReflect: the Daily Reflection Injector over days and templates      *)

MaxDay == 2         \* calendar days in one behaviour
MaxInjects == 3     \* injector calls in one behaviour

Reflection(sourceId, quote, color) ==
    [type |-> <<"b", "o", "o", "k">>, source |-> <<"T", "a">>, sourceId |-> sourceId,
     author |-> <<"Ann">>, quote |-> quote, note |-> <<>>, location |-> <<"loc1">>,
     color |-> color]

\* The picks of the service: a quote of the first source, and a highlighted
\* quote of a source the list does not have.
ReflectionPool ==
    {Reflection("s1", <<"x">>, <<>>), Reflection("s9", <<"z">>, <<"yellow">>)}

\* The templates the user may set: none, the example, one of their own.
ReflectionTemplates == {<<>>, DAILY_REFLECTION_TEMPLATE_EXAMPLE, <<"{{quote}}", NL>>}

\* What the network may do to an injector call.
ReflectNets ==
    {NetOk}
    \cup {[NetOk EXCEPT !.connect = c] : c \in ConnectOutcomes}
    \cup {[NetOk EXCEPT !.sources = f] : f \in FetchOutcomes}
    \cup {[NetOk EXCEPT !.reflection = f] : f \in ReflectionOutcomes}

JournalText == <<"journal", NL>>

InitReflect ==
    /\ files = <<>>
    /\ folders = <<>>
    /\ settings = [DEFAULT_SETTINGS EXCEPT !.unearthedApiKey = "key"]
    /\ remote = <<[SourcePool[1] EXCEPT !.quotes = <<QuoteA>>]>>
    /\ remoteTags = <<>>
    /\ reflection \in ReflectionPool
    /\ sourceIdToFileName = <<>>
    /\ today = 1
    /\ persisted = settings
    /\ pc = "idle"
    /\ cycle = NoCycle
    /\ notices = <<>>
    /\ hist = NoHist

\* The user writes today's daily note.
CreateDailyNote ==
    /\ DailyNotePath(settings, today) \notin DOMAIN files
    /\ files' = WriteFile(files, DailyNotePath(settings, today), JournalText)
    /\ hist' = [hist EXCEPT !.op = "user", !.log = <<>>, !.fault = NoFault]
    /\ UNCHANGED <<folders, settings, remote, remoteTags, reflection,
                   sourceIdToFileName, today, persisted, pc, cycle, notices>>

\* The settings tab: the daily reflection template is changed and saved.
SetDailyReflectionTemplate(template) ==
    /\ settings.dailyReflectionTemplate # template
    /\ settings' = [settings EXCEPT !.dailyReflectionTemplate = template]
    /\ persisted' = settings'
    /\ hist' = [hist EXCEPT !.op = "settings", !.log = <<>>, !.fault = NoFault]
    /\ UNCHANGED <<files, folders, remote, remoteTags, reflection,
                   sourceIdToFileName, today, pc, cycle, notices>>

\* Midnight: the service picks the reflection of the new day.
NextDay ==
    /\ today < MaxDay
    /\ today' = today + 1
    /\ reflection' \in ReflectionPool
    /\ hist' = [hist EXCEPT !.op = "midnight", !.log = <<>>, !.fault = NoFault]
    /\ UNCHANGED <<files, folders, settings, remote, remoteTags,
                   sourceIdToFileName, persisted, pc, cycle, notices>>

\* The "Manual daily reflection sync" button.
InjectReflection(net, fault) ==
    /\ hist.runs < MaxInjects
    /\ \E g \in {getAndAppendDailyReflection(files, folders, settings,
                    sourceIdToFileName, remote, remoteTags, reflection, net, fault, today)} :
           /\ files' = g.files
           /\ folders' = g.folders
           /\ settings' = g.settings
           /\ persisted' = g.settings
           /\ sourceIdToFileName' = g.map
           /\ notices' = <<"Unearthed Sync started, please wait...">> \o g.notices
                  \o <<"Complete - check your daily note">>
           /\ hist' = [hist EXCEPT !.op = "inject", !.fault = fault,
                                    !.log = <<[path |-> DailyNotePath(settings, today),
                                               wrote |-> g.files # files]>>,
                                    !.runs = hist.runs + 1,
                                    !.reflectionFetch = net.reflection]
    /\ UNCHANGED <<remote, remoteTags, reflection, today, pc, cycle>>

NextReflect ==
    \/ CreateDailyNote
    \/ \E template \in ReflectionTemplates : SetDailyReflectionTemplate(template)
    \/ NextDay
    \/ \E net \in ReflectNets :
          \E fault \in Faults({DailyNotePath(settings, today)}) : InjectReflection(net, fault)

SpecReflect == InitReflect /\ [][NextReflect]_vars

\* The reflection blocks in a text: every block was written between two
\* hidden markers.
ReflectionBlocks(text) == CountOccurrences(text, <<HIDDEN_CHAR>>) \div 2

\* C7: in every reachable state, after any number of injector calls, every
\* daily note holds at most one reflection block.
C7_AtMostOneReflection ==
    \A d \in 1..MaxDay :
        DailyNotePath(settings, d) \in DOMAIN files
        => ReflectionBlocks(files[DailyNotePath(settings, d)]) <= 1

-----------------------------------------------------------------------------
(* SpecSync: startups, the background sync and the manual triggers         *)

\* The faults of the file storage during a cycle: none, or the write of the
\* first source's file.
SyncFaults ==
    {NoFault,
     [read |-> {}, write |-> {SourcePath(DEFAULT_SETTINGS, SourcePool[1])}, mkdir |-> {}]}

\* What the network may do to the reflection part of a handler.
RibbonNets == {NetOk, [NetOk EXCEPT !.reflection = "none"]}

\* What the network may do to a cycle: all requests answered, no handshake,
\* no sources.
CycleNets ==
    {NetOk, [NetOk EXCEPT !.connect = "status"], [NetOk EXCEPT !.connect = "error"],
     [NetOk EXCEPT !.sources = "error"]}

InitSync ==
    /\ files = WriteFile(<<>>, DailyNotePath(DEFAULT_SETTINGS, 1), JournalText)
    /\ folders = <<>>
    /\ settings = [DEFAULT_SETTINGS EXCEPT !.unearthedApiKey = "key",
                                           !.autoSync = TRUE,
                                           !.addDailyReflection = TRUE]
    /\ remote = <<[SourcePool[1] EXCEPT !.quotes = <<QuoteA>>]>>
    /\ remoteTags = <<TagPool[1]>>
    /\ reflection = Reflection("s1", <<"x">>, <<>>)
    /\ sourceIdToFileName = <<>>
    /\ today = 1
    /\ persisted = settings
    /\ pc = "idle"
    /\ cycle = NoCycle
    /\ notices = <<>>
    /\ hist = NoHist

\* Midnight, while the application runs or is closed.
Midnight ==
    /\ today < MaxDay
    /\ today' = today + 1
    /\ hist' = [hist EXCEPT !.op = "midnight", !.log = <<>>, !.fault = NoFault]
    /\ UNCHANGED <<files, folders, settings, remote, remoteTags, reflection,
                   sourceIdToFileName, persisted, pc, cycle, notices>>

\* Mutant of SyncDue: the gate on lastSyncDate is left out.
SyncDue_Always(st, d) == TRUE

\* !moment(lastSyncDate, "YYYY-MM-DD").isSame(moment(), "day") on day d; the
\* empty lastSyncDate (0) is the same day as no day.
SyncDue(st, d) == st.lastSyncDate # d

\* The application starts on day `today`: onload loads the saved settings,
\* and when the layout is ready the gate on lastSyncDate decides about the
\* startup reflection and the launch of the background sync, which then runs
\* on its own.  A sync still in flight in the process before is gone.
Startup(net, fault) ==
    \E loaded \in {persisted} :
    \E due \in {SyncDue(loaded, today)} :
    \E g \in {IF due /\ loaded.addDailyReflection
               THEN getAndAppendDailyReflection(files, folders, loaded, <<>>, remote,
                        remoteTags, reflection, net, fault, today)
               ELSE [files |-> files, folders |-> folders, settings |-> loaded,
                     map |-> <<>>, notices |-> <<>>]} :
    \E launch \in {due /\ g.settings.autoSync} :
        /\ files' = g.files
        /\ folders' = g.folders
        /\ settings' = g.settings
        /\ persisted' = g.settings
        /\ sourceIdToFileName' = g.map
        /\ notices' = g.notices
               \o (IF launch THEN <<"Unearthed Sync started, please wait...">> ELSE <<>>)
        /\ pc' = IF launch THEN "syncing" ELSE "idle"
        /\ cycle' = IF launch THEN [kind |-> "auto", currentDate |-> today] ELSE NoCycle
        /\ hist' = [hist EXCEPT !.op = "startup", !.fault = fault, !.log = <<>>,
                                !.started = launch, !.base = <<>>]
        /\ UNCHANGED <<remote, remoteTags, reflection, today>>

\* Mutant of SyncedOn: the date of the end of the sync is stored.
SyncedOn_Today(st, currentDate) == [st EXCEPT !.lastSyncDate = today]

\* this.settings.lastSyncDate = currentDate
SyncedOn(st, currentDate) == [st EXCEPT !.lastSyncDate = currentDate]

\* performBackgroundSync(currentDate) comes to its end: syncData, and after a
\* sync that did not throw the notice and the date of the launch as
\* lastSyncDate, saved.
BackgroundSync(net, fault) ==
    /\ pc = "syncing"
    /\ \E y \in {syncData(files, folders, settings, sourceIdToFileName, remote,
                           remoteTags, net, fault, TRUE)} :
           /\ files' = y.files
           /\ folders' = y.folders
           /\ settings' = IF y.rejected THEN y.settings
                          ELSE SyncedOn(y.settings, cycle.currentDate)
           /\ persisted' = settings'
           /\ sourceIdToFileName' = y.map
           /\ notices' = y.notices
                  \o (IF y.rejected
                      THEN <<"Unearthed Sync failed. Check console for details.">>
                      ELSE <<"Unearthed Sync complete">>)
           /\ hist' = [hist EXCEPT
                  !.op = "auto", !.fault = fault, !.log = <<>>,
                  !.failure = CycleFailure(settings, net), !.rejected = y.rejected,
                  !.base = <<>>,
                  !.doneFor = IF y.rejected THEN @ ELSE @ \cup {cycle.currentDate},
                  !.doneOn = IF y.rejected THEN @ ELSE @ \cup {today}]
    /\ pc' = "idle"
    /\ cycle' = NoCycle
    /\ UNCHANGED <<remote, remoteTags, reflection, today>>

\* The ribbon icon: the reflection, then syncData and the notice of the end.
\* The network may treat the requests of the two parts differently.
Ribbon(net1, net2, fault) ==
    /\ hist.runs < MaxTagRuns
    /\ \E g \in {getAndAppendDailyReflection(files, folders, settings,
                    sourceIdToFileName, remote, remoteTags, reflection, net1, fault, today)} :
       \E y \in {syncData(g.files, g.folders, g.settings, g.map, remote, remoteTags,
                           net2, fault, TRUE)} :
           /\ files' = y.files
           /\ folders' = y.folders
           /\ settings' = y.settings
           /\ persisted' = y.settings
           /\ sourceIdToFileName' = y.map
           /\ notices' = <<"Unearthed Sync started, please wait...">> \o g.notices
                  \o y.notices
                  \o (IF y.rejected THEN <<>> ELSE <<"Unearthed Sync complete">>)
           /\ hist' = [hist EXCEPT
                  !.op = "ribbon", !.fault = fault, !.log = <<>>,
                  !.runs = hist.runs + 1,
                  !.failure = CycleFailure(g.settings, net2), !.rejected = y.rejected,
                  !.base = g.files, !.reflectionFetch = net1.reflection]
    /\ UNCHANGED <<remote, remoteTags, reflection, today, pc, cycle>>

NextSync ==
    \/ Midnight
    \/ \E net \in RibbonNets : Startup(net, NoFault)
    \/ \E net \in CycleNets, fault \in SyncFaults : BackgroundSync(net, fault)
    \/ \E net \in CycleNets : ManualSync(net, NoFault)
    \/ \E net1 \in RibbonNets, net2 \in CycleNets : Ribbon(net1, net2, NoFault)

SpecSync == InitSync /\ [][NextSync]_vars

\* The operations that run a sync cycle (syncData with applyTheData).
CycleOps == {"auto", "sync", "ribbon"}

\* C9: a sync cycle whose connect handshake or source fetch fails creates and
\* modifies no file and no folder, shows the failure notice, rejects, and
\* shows no "Unearthed Sync complete".
C9_FailedCycleWritesNothing ==
    [][(hist'.op \in CycleOps /\ hist'.failure # "none") =>
        /\ files' = (IF hist'.op = "ribbon" THEN hist'.base ELSE files)
        /\ folders' = folders
        /\ hist'.rejected
        /\ Includes(notices', "Sync failed. Check console for details.")
        /\ ~Includes(notices', "Unearthed Sync complete")]_vars

\* C9 witness: a cycle that had a source file to create failed, at the
\* handshake or at the fetch of the sources, and the file is not there.
C9_Witness ==
    /\ hist.op \in CycleOps
    /\ hist.failure \in {"connect", "sources"}
    /\ hist.rejected
    /\ remote # <<>>
    /\ SourcePath(settings, remote[1]) \notin DOMAIN files
    /\ Includes(notices, "Sync failed. Check console for details.")

-----------------------------------------------------------------------------
(* SpecName: toSafeFileName over titles, under the filename settings       *)

MaxTitleLen == 3    \* characters in a title that is enumerated

\* The characters of the enumerated titles: a letter of each case, a
\* reserved character, a blank, a control character, and the characters the
\* replacements are made of.
TitleChars == {"a", "T", ":", SP, NL, "-", DOLLAR}

RECURSIVE SeqsUpTo(_, _)
SeqsUpTo(chars, n) ==
    IF n = 0 THEN {<<>>}
    ELSE SeqsUpTo(chars, n - 1)
         \cup {Append(t, c) : t \in {u \in SeqsUpTo(chars, n - 1) : Len(u) = n - 1},
                              c \in chars}

\* "My: Book/Title?"
ExampleTitle ==
    <<"M", "y", ":", SP, "B", "o", "o", "k", "/", "T", "i", "t", "l", "e", "?">>
\* "my-book-title"
ExampleFileName ==
    <<"m", "y", "-", "b", "o", "o", "k", "-", "t", "i", "t", "l", "e">>

Titles == SeqsUpTo(TitleChars, MaxTitleLen) \cup {ExampleTitle}

\* What the text field "Filename replace spaces with" may hold: the default,
\* nothing, a reserved character, a blank, "$".
ReplaceSpacesValues == {<<"-">>, <<>>, <<"/">>, <<SP>>, <<DOLLAR>>}

InitName ==
    /\ files = <<>>
    /\ folders = <<>>
    /\ settings = DEFAULT_SETTINGS
    /\ remote = <<>>
    /\ remoteTags = <<>>
    /\ reflection = NoReflection
    /\ sourceIdToFileName = <<>>
    /\ today = 1
    /\ persisted = settings
    /\ pc = "idle"
    /\ cycle = NoCycle
    /\ notices = <<>>
    /\ hist = NoHist

\* The toggle "Filename lowercase".
SetSourceFilenameLowercase(value) ==
    /\ settings.sourceFilenameLowercase # value
    /\ settings' = [settings EXCEPT !.sourceFilenameLowercase = value]
    /\ persisted' = settings'
    /\ hist' = [NoHist EXCEPT !.op = "setting"]
    /\ UNCHANGED <<files, folders, remote, remoteTags, reflection,
                   sourceIdToFileName, today, pc, cycle, notices>>

\* The text field "Filename replace spaces with".
SetSourceFilenameReplaceSpaces(value) ==
    /\ settings.sourceFilenameReplaceSpaces # value
    /\ settings' = [settings EXCEPT !.sourceFilenameReplaceSpaces = value]
    /\ persisted' = settings'
    /\ hist' = [NoHist EXCEPT !.op = "setting"]
    /\ UNCHANGED <<files, folders, remote, remoteTags, reflection,
                   sourceIdToFileName, today, pc, cycle, notices>>

\* toSafeFileName(plugin, str)
SafeFileName(str) ==
    /\ hist' = [NoHist EXCEPT !.op = "name", !.input = str,
                              !.output = toSafeFileName(settings, str)]
    /\ UNCHANGED <<files, folders, settings, remote, remoteTags, reflection,
                   sourceIdToFileName, today, persisted, pc, cycle, notices>>

NextName ==
    \/ \E value \in BOOLEAN : SetSourceFilenameLowercase(value)
    \/ \E value \in ReplaceSpacesValues : SetSourceFilenameReplaceSpaces(value)
    \/ \E str \in Titles : SafeFileName(str)

SpecName == InitName /\ [][NextName]_vars

\* s starts with, or ends with, the replacement.
AtAnEnd(s, r) ==
    /\ Len(s) >= Len(r)
    /\ \/ SubSeq(s, 1, Len(r)) = r
       \/ SubSeq(s, Len(s) - Len(r) + 1, Len(s)) = r

\* C11: the file name toSafeFileName gives holds no reserved character, no
\* control character and no white space, never the replacement twice in a
\* row, and has the replacement at neither end; with lowercase on and the
\* replacement "-", "My: Book/Title?" gives "my-book-title".
C11_SafeFileName ==
    hist.op = "name" =>
        /\ \A k \in 1..Len(hist.output) :
               hist.output[k] \notin ReservedChars \cup ControlChars \cup WhiteSpace
        /\ ~HasSubstring(hist.output, SafeReplacement(settings) \o SafeReplacement(settings))
        /\ ~AtAnEnd(hist.output, SafeReplacement(settings))
        /\ (/\ hist.input = ExampleTitle
            /\ settings.sourceFilenameLowercase
            /\ settings.sourceFilenameReplaceSpaces = <<"-">>)
               => hist.output = ExampleFileName

-----------------------------------------------------------------------------
(* SpecRender: quotes and reflections through the configured templates     *)

MaxTemplateLen == 2     \* tokens in a template that is enumerated

QuotePlaceholders == {"{{content}}", "{{note}}", "{{location}}", "{{color}}"}
ReflectionPlaceholders ==
    {"{{quote}}", "{{type}}", "{{source}}", "{{author}}", "{{location}}", "{{note}}",
     "{{dailyReflectionContent}}"}

\* "> {{content}}\n**Note:** {{note}}"
NoteTemplate == <<GT, SP, "{{content}}", NL, "**Note:** ", "{{note}}">>

\* The quote templates the user may type: short ones of placeholders, the
\* example of the settings tab, and the one with a note line.
RenderQuoteTemplates ==
    (SeqsUpTo(QuotePlaceholders, MaxTemplateLen) \ {<<>>})
    \cup {QUOTE_TEMPLATE_EXAMPLE, NoteTemplate}

RenderReflectionTemplates ==
    (SeqsUpTo({"{{quote}}", "{{location}}", "{{note}}"}, MaxTemplateLen) \ {<<>>})
    \cup {DAILY_REFLECTION_TEMPLATE_EXAMPLE, <<"{{dailyReflectionContent}}">>}

\* A quote and a reflection for which the service left out note, location
\* and colour.
QuoteN == Quote(<<"n">>, Undefined, Undefined, Undefined)
ReflectionN ==
    [Reflection("s1", <<"n">>, Undefined) EXCEPT !.note = Undefined,
                                                 !.location = Undefined]

RenderQuotes == QuotePool \cup {QuoteN}
RenderReflections == ReflectionPool \cup {ReflectionN}

\* The text area "Quote template".
SetQuoteTemplate(value) ==
    /\ settings.quoteTemplate # value
    /\ settings' = [settings EXCEPT !.quoteTemplate = value]
    /\ persisted' = settings'
    /\ hist' = [NoHist EXCEPT !.op = "settings"]
    /\ UNCHANGED <<files, folders, remote, remoteTags, reflection,
                   sourceIdToFileName, today, pc, cycle, notices>>

\* The template branch of the quote loop of applyData, for one new quote.
QuoteThroughTemplate(quote) ==
    /\ settings.quoteTemplate # <<>>
    /\ hist' = [NoHist EXCEPT !.op = "quote", !.input = quote,
                              !.output = RenderQuoteTemplate(settings, quote)]
    /\ UNCHANGED <<files, folders, settings, remote, remoteTags, reflection,
                   sourceIdToFileName, today, persisted, pc, cycle, notices>>

\* reflectionContent of appendToDailyNote with a template configured.
ReflectionThroughTemplate(r) ==
    /\ settings.dailyReflectionTemplate # <<>>
    /\ hist' = [NoHist EXCEPT !.op = "reflection", !.input = r,
                              !.output = ReflectionContent(settings, sourceIdToFileName, r)]
    /\ UNCHANGED <<files, folders, settings, remote, remoteTags, reflection,
                   sourceIdToFileName, today, persisted, pc, cycle, notices>>

NextRender ==
    \/ \E value \in RenderQuoteTemplates : SetQuoteTemplate(value)
    \/ \E value \in RenderReflectionTemplates : SetDailyReflectionTemplate(value)
    \/ \E quote \in RenderQuotes : QuoteThroughTemplate(quote)
    \/ \E r \in RenderReflections : ReflectionThroughTemplate(r)

SpecRender == InitName /\ [][NextRender]_vars

\* C12: after a quote or a daily reflection went through a configured
\* template, no recognized placeholder is left in the output, however many
\* times the template holds it.
C12_NoPlaceholderLeft ==
    /\ hist.op = "quote" =>
           \A k \in 1..Len(hist.output) : hist.output[k] \notin QuotePlaceholders
    /\ hist.op = "reflection" =>
           \A k \in 1..Len(hist.output) : hist.output[k] \notin ReflectionPlaceholders

\* The fields of a quote or a reflection that are absent or empty, by the
\* placeholder that stands for each.
EmptyFields(op, input) ==
    {ph \in {"{{note}}", "{{location}}", "{{color}}"} :
        /\ op = "quote" \/ ph # "{{color}}"
        /\ ~Truthy(CASE ph = "{{note}}" -> input.note
                     [] ph = "{{location}}" -> input.location
                     [] OTHER -> input.color)}

TemplateOf(op) ==
    IF op = "quote" THEN settings.quoteTemplate ELSE settings.dailyReflectionTemplate

\* C13: a field that is absent or empty is rendered as the empty string:
\* the output holds no text "undefined", a placeholder of such a field that
\* the template holds once is not left in the output, and the template
\* "> {{content}}\n**Note:** {{note}}" with an empty note ends with
\* "**Note:** ".
C13_EmptyFieldRendersEmpty ==
    hist.op \in {"quote", "reflection"} =>
        /\ ~Includes(hist.output, "undefined")
        /\ \A ph \in EmptyFields(hist.op, hist.input) :
               CountOccurrences(TemplateOf(hist.op), <<ph>>) = 1
                   => ~Includes(hist.output, ph)
        /\ (hist.op = "quote" /\ settings.quoteTemplate = NoteTemplate
              /\ ~Truthy(hist.input.note))
               => hist.output[Len(hist.output)] = "**Note:** "

-----------------------------------------------------------------------------
(* SpecEntry: the three manual entry points over one vault                 *)

\* What the network may do to a manual operation: all requests answered, or
\* no sources.
EntryNets == {NetOk, [NetOk EXCEPT !.sources = "error"]}

NextEntry ==
    \/ \E i \in 1..Len(remote) : \E quote \in QuotesFor(i) : AddQuote(i, quote)
    \/ TagAdd
    \/ \E net \in EntryNets : ManualSync(net, NoFault)
    \/ \E net \in EntryNets : LinkTags(net, NoFault)
    \/ \E net \in EntryNets : InjectReflection(net, NoFault)

SpecEntry == InitSync /\ [][NextEntry]_vars

\* The Source files, the tag files and the daily notes of a vault.
SourceFiles(fs) ==
    {p \in DOMAIN fs : \E k \in 1..Len(SourcePool) : p.folder = TypeFolder(SourcePool[k])}
DailyNotes(fs, st) == {p \in DOMAIN fs : p.folder = <<st.dailyReflectionLocation>>}

\* None of the paths was created or modified between fs and fs2.
Untouched(fs, fs2, paths) == \A p \in paths : p \in DOMAIN fs /\ fs2[p] = fs[p]

-----------------------------------------------------------------------------
(* SpecHeader: new Source files under a configured Source template         *)

\* The Source templates the user may type: a heading of placeholders, a
\* placeholder twice, a line with each form of createdAt, and what the
\* button "Insert Options" appends to an empty template.
InsertedOptions ==
    <<"{{title}}", NL, "{{subtitle}}", NL, "{{author}}", NL, "{{type}}", NL,
      "{{origin}}", NL, "{{asin}}", NL, "{{ignored}}", NL, "{{createdAt}}", NL,
      "{{createdAt|date:YYYY-MM-DD}}", NL>>

SourceTemplates ==
    {<<"# ", "{{title}}", NL, "{{author}}", NL>>,
     <<"{{title}}", SP, "{{title}}", NL>>,
     <<"{{title}}", SP, "{{createdAt}}", NL>>,
     <<"{{type}}", SP, "{{createdAt|date:YYYY-MM-DD}}", NL>>,
     InsertedOptions}

\* The text area "Source(book) template".
SetSourceTemplate(value) ==
    /\ hist.runs < MaxRuns
    /\ settings.sourceTemplate # value
    /\ settings' = [settings EXCEPT !.sourceTemplate = value]
    /\ persisted' = settings'
    /\ hist' = [hist EXCEPT !.op = "settings", !.log = <<>>, !.fault = NoFault]
    /\ UNCHANGED <<files, folders, remote, remoteTags, reflection,
                   sourceIdToFileName, today, pc, cycle, notices>>

NextHeader ==
    \/ AddSource
    \/ \E i \in 1..Len(remote) : AddQuote(i, QuoteA)
    \/ \E value \in SourceTemplates \cup {<<>>} : SetSourceTemplate(value)
    \/ Merge(NoFault)

SpecHeader == InitName /\ [][NextHeader]_vars

\* The Source template with every placeholder replaced by the Source's value.
FilledTemplate(template, item) ==
    ReplaceAll(ReduceOptions(template, item, 1), "{{createdAt|date:YYYY-MM-DD}}",
               FormatDate(item.createdAt))

IsPrefix(s, t) == Len(s) <= Len(t) /\ SubSeq(t, 1, Len(s)) = s

\* C15: with a Source template configured, a Source file that a merge
\* creates begins with the template in which every placeholder is replaced
\* by the Source's value, whether or not the template holds createdAt.
C15_NewFileBeginsWithTemplate ==
    (hist.op = "merge" /\ settings.sourceTemplate # <<>>) =>
        \A k \in 1..Len(hist.log) :
            (~hist.log[k].existed /\ hist.log[k].wrote) =>
                \E i \in 1..Len(remote) :
                    /\ remote[i].id = hist.log[k].id
                    /\ IsPrefix(FilledTemplate(settings.sourceTemplate, remote[i]),
                                files[hist.log[k].path])

-----------------------------------------------------------------------------
(* SpecNames: tag file names against the Source files of two folders       *)

\* An article with the title of the third tag, and a book.
ArticleTa == [Source("s3", <<"T", "a">>, <<"a", "r", "t", "i", "c", "l", "e">>)
                 EXCEPT !.quotes = <<QuoteA>>]
BookKa == [SourcePool[2] EXCEPT !.quotes = <<QuoteA>>]

InitNames ==
    /\ files = <<>>
    /\ folders = <<>>
    /\ settings = [DEFAULT_SETTINGS EXCEPT !.unearthedApiKey = "key"]
    /\ remote \in {<<ArticleTa, BookKa>>, <<BookKa, ArticleTa>>}
    /\ remoteTags = <<>>
    /\ reflection = NoReflection
    /\ sourceIdToFileName = <<>>
    /\ today = 1
    /\ persisted = settings
    /\ pc = "idle"
    /\ cycle = NoCycle
    /\ notices = <<>>
    /\ hist = NoHist

SpecNames == InitNames /\ [][NextTags]_vars

\* C16: the name of a tag file that an operation creates is not the stem of
\* a file in any other subfolder of the root.
C16_TagNameFreeEverywhere ==
    [][hist'.op \in {"link", "sync"} =>
          \A p \in TagFiles(files') \ TagFiles(files) :
              \A q \in DOMAIN files' :
                  (q.folder # TagsFolder /\ HasFolder(folders', q.folder))
                      => q.name # p.name]_vars

-----------------------------------------------------------------------------
(* SpecLinks: the Sources section of a new tag file                        *)

\* A tag that refers to sources, and the ids it may refer to: one the
\* service lists, one it does not list, both.
LinkedTag(sourceIds) == Tag("t4", <<"L", "i", "n", "k", "s">>, <<>>, sourceIds)
LinkedIds == {<<"s1">>, <<"s9">>, <<"s1", "s9">>}

\* Notes the user keeps below the root folder, each with the id of the
\* first source in its text: none, one, one of the same name in each of two
\* folders, one with ".md" inside its name.
BooksFolder == <<"B", "o", "o", "k", "s">>
ArticlesFolder == <<"A", "r", "t", "i", "c", "l", "e", "s">>
IdNote == <<"see ", "s1", NL>>
UserVaults ==
    {[files |-> <<>>, folders |-> <<>>],
     [files |-> WriteFile(<<>>, Path(BooksFolder, <<"m", "y">>), IdNote),
      folders |-> <<BooksFolder>>],
     [files |-> WriteFile(WriteFile(<<>>, Path(BooksFolder, <<"m", "y">>), IdNote),
                          Path(ArticlesFolder, <<"m", "y">>), IdNote),
      folders |-> <<ArticlesFolder, BooksFolder>>],
     [files |-> WriteFile(<<>>, Path(BooksFolder, <<"a", ".md", "b">>), IdNote),
      folders |-> <<BooksFolder>>]}

InitLinks ==
    /\ \E v \in UserVaults : files = v.files /\ folders = v.folders
    /\ settings = [DEFAULT_SETTINGS EXCEPT !.unearthedApiKey = "key"]
    /\ remote \in {<<>>, <<[SourcePool[1] EXCEPT !.quotes = <<QuoteA>>]>>}
    /\ \E ids \in LinkedIds : remoteTags = <<LinkedTag(ids)>>
    /\ reflection = NoReflection
    /\ sourceIdToFileName = <<>>
    /\ today = 1
    /\ persisted = settings
    /\ pc = "idle"
    /\ cycle = NoCycle
    /\ notices = <<>>
    /\ hist = NoHist

\* C18: a tag fetch that fails aborts the whole manual sync: the cycle
\* rejects and writes neither Source files nor tag files.
C18_TagFetchFailureAborts ==
    [][(hist'.op = "sync" /\ hist'.tagsFetch # "ok")
          => (hist'.rejected /\ files' = files)]_vars

SpecLinks == InitLinks /\ [][NextTags]_vars

\* `- [[${name}]]\n`
Link(name) == <<"- [[">> \o name \o <<"]]", NL>>

\* The stems of the files in the other subfolders of the root whose text
\* holds one of the ids.
ScannedStems(fs, fds, sourceIds) ==
    {q.name : q \in {p \in DOMAIN fs :
        /\ HasFolder(fds, p.folder)
        /\ p.folder # TagsFolder
        /\ \E k \in 1..Len(sourceIds) : HasSubstring(fs[p], <<sourceIds[k]>>)}}

LinkCount(text) == CountOccurrences(text, <<"- [[">>)

\* The ids of a tag that the id-to-filename map knows.
MappedIds(map, sourceIds) ==
    {k \in 1..Len(sourceIds) : sourceIds[k] \in DOMAIN map /\ map[sourceIds[k]] # <<>>}

\* The text is what the resolution order asks of the file of the tag: the
\* heading, and for a tag with source ids a Sources section whose links are
\* the stems the scan found, or else the file names of the map, or else the
\* ids made safe; at least one link in each case.
ResolvedAsOrdered(text, fs, fds, st, map, tag) ==
    /\ IsPrefix(<<"# ">> \o tag.title \o <<NL, NL>>, text)
    /\ IF Len(tag.sourceIds) = 0 THEN LinkCount(text) = 0
       ELSE /\ HasSubstring(text, <<"## Sources", NL, NL>>)
            /\ LinkCount(text) >= 1
            /\ IF ScannedStems(fs, fds, tag.sourceIds) # {}
               THEN /\ \A n \in ScannedStems(fs, fds, tag.sourceIds) :
                          HasSubstring(text, Link(n))
                    /\ LinkCount(text) = Cardinality(ScannedStems(fs, fds, tag.sourceIds))
               ELSE IF MappedIds(map, tag.sourceIds) # {}
               THEN /\ \A k \in MappedIds(map, tag.sourceIds) :
                          HasSubstring(text, Link(map[tag.sourceIds[k]]))
                    /\ LinkCount(text) = Cardinality(MappedIds(map, tag.sourceIds))
               ELSE /\ \A k \in 1..Len(tag.sourceIds) :
                          HasSubstring(text, Link(toSafeFileName(st, <<tag.sourceIds[k]>>)))
                    /\ LinkCount(text) = Len(tag.sourceIds)

\* C17: the Sources section of a tag file that an operation creates follows
\* the resolution order: the de-duplicated stems of the files the scan
\* finds, only then the map, only then the raw ids; at least one link.
C17_SourceResolutionOrder ==
    [][hist'.op \in {"link", "sync"} =>
          \A p \in TagFiles(files') \ TagFiles(files) :
              \E k \in 1..Len(remoteTags) :
                  ResolvedAsOrdered(files'[p], files', folders', settings',
                                    sourceIdToFileName', remoteTags[k])]_vars

-----------------------------------------------------------------------------
(* SpecSkip: the injector without its prerequisites                        *)

InitSkip ==
    /\ files \in {<<>>, WriteFile(<<>>, DailyNotePath(DEFAULT_SETTINGS, 1), JournalText)}
    /\ folders = <<>>
    /\ settings = [DEFAULT_SETTINGS EXCEPT !.unearthedApiKey = "key"]
    /\ remote = <<[SourcePool[1] EXCEPT !.quotes = <<QuoteA>>]>>
    /\ remoteTags = <<TagPool[1]>>
    /\ reflection = Reflection("s1", <<"x">>, <<>>)
    /\ sourceIdToFileName = <<>>
    /\ today = 1
    /\ persisted = settings
    /\ pc = "idle"
    /\ cycle = NoCycle
    /\ notices = <<>>
    /\ hist = NoHist

\* The field "Daily reflection (new file location)".
SetDailyReflectionLocation(newFolder) ==
    /\ settings.dailyReflectionLocation # newFolder
    /\ settings' = [settings EXCEPT !.dailyReflectionLocation = newFolder]
    /\ persisted' = settings'
    /\ hist' = [hist EXCEPT !.op = "settings", !.log = <<>>, !.fault = NoFault]
    /\ UNCHANGED <<files, folders, remote, remoteTags, reflection,
                   sourceIdToFileName, today, pc, cycle, notices>>

\* The field "Daily reflection (date format)".
SetDailyReflectionDateFormat(value) ==
    /\ settings.dailyReflectionDateFormat # value
    /\ settings' = [settings EXCEPT !.dailyReflectionDateFormat = value]
    /\ persisted' = settings'
    /\ hist' = [hist EXCEPT !.op = "settings", !.log = <<>>, !.fault = NoFault]
    /\ UNCHANGED <<files, folders, remote, remoteTags, reflection,
                   sourceIdToFileName, today, pc, cycle, notices>>

NextSkip ==
    \/ \E newFolder \in {"", DEFAULT_SETTINGS.dailyReflectionLocation} :
          SetDailyReflectionLocation(newFolder)
    \/ \E value \in {"", DEFAULT_SETTINGS.dailyReflectionDateFormat} :
          SetDailyReflectionDateFormat(value)
    \/ \E i \in 1..Len(remote) : AddQuote(i, QuoteB)
    \/ \E net \in RibbonNets : InjectReflection(net, NoFault)
    \/ \E net1 \in RibbonNets, net2 \in CycleNets : Ribbon(net1, net2, NoFault)

SpecSkip == InitSkip /\ [][NextSkip]_vars

\* A prerequisite of the injection is missing: no daily note of the day, no
\* reflection on the service, no folder or no date format in the settings.
Skipped(fs, st, d, fetch) ==
    \/ DailyNotePath(st, d) \notin DOMAIN fs
    \/ fetch = "none"
    \/ st.dailyReflectionLocation = ""
    \/ st.dailyReflectionDateFormat = ""

\* C19: without a prerequisite the injector creates and modifies no file and
\* its handler runs to its end; on the ribbon the sync that follows still
\* runs, and writes the Source file when its requests are answered.
C19_SkippedInjectionIsHarmless ==
    [][/\ (hist'.op = "inject" /\ Skipped(files, settings, today, hist'.reflectionFetch))
            => (/\ files' = files
                /\ notices'[Len(notices')] = "Complete - check your daily note")
       /\ (hist'.op = "ribbon" /\ Skipped(files, settings, today, hist'.reflectionFetch))
            => (/\ hist'.base = files
                /\ hist'.failure = "none"
                      => (/\ ~hist'.rejected
                          /\ Includes(notices', "Unearthed Sync complete")
                          /\ SourcePath(settings', remote[1]) \in DOMAIN files'))]_vars

\* C19 witness: the ribbon on a vault without the daily note of the day: the
\* injector said so and the sync that followed wrote the Source file.
C19_Witness ==
    /\ hist.op = "ribbon"
    /\ DailyNotePath(settings, today) \notin DOMAIN files
    /\ Includes(notices, "Daily note does not exist")
    /\ Includes(notices, "Unearthed Sync complete")
    /\ SourcePath(settings, remote[1]) \in DOMAIN files

-----------------------------------------------------------------------------
(* SpecConnect: the handshake of cycles that run at the same time          *)

\* The cycles that may be in flight together: performBackgroundSync and the
\* "Manual sync" button.  A cycle is idle, waits for the answer of its
\* handshake (sent with the API key of that moment), or has passed
\* checkConnection and is about to fetch.
CycleIds == {"auto", "sync"}
ApiKeys == {"key", "key2"}
MaxConnectRuns == 3
Idle == [at |-> "idle", key |-> ""]

\* json.data.secret of the handshake made with an API key.
SecretOf(key) == IF key = "key" THEN "secret" ELSE "secret2"

InitConnect ==
    /\ files = <<>>
    /\ folders = <<>>
    /\ settings = [DEFAULT_SETTINGS EXCEPT !.unearthedApiKey = "key", !.autoSync = TRUE]
    /\ remote = <<[SourcePool[1] EXCEPT !.quotes = <<QuoteA>>]>>
    /\ remoteTags = <<>>
    /\ reflection = NoReflection
    /\ sourceIdToFileName = <<>>
    /\ today = 1
    /\ persisted = settings
    /\ pc = "idle"
    /\ cycle = [c \in CycleIds |-> Idle]
    /\ notices = <<>>
    /\ hist = NoHist

\* The field "Unearthed API key": the key is stored and the secret cleared.
SetUnearthedApiKey(value) ==
    /\ settings.unearthedApiKey # value
    /\ settings' = [settings EXCEPT !.unearthedApiKey = value, !.secret = ""]
    /\ persisted' = settings'
    /\ hist' = [hist EXCEPT !.op = "key", !.log = <<>>, !.fault = NoFault,
                            !.issued = FALSE, !.handshakes = 0, !.secretKey = ""]
    /\ UNCHANGED <<files, folders, remote, remoteTags, reflection,
                   sourceIdToFileName, today, pc, cycle, notices>>

\* A cycle begins: syncData calls checkConnection, which sends the handshake
\* and waits for its answer when settings.secret is empty, and returns
\* otherwise.  The background sync is the first cycle of a process.
BeginCycle(c) ==
    /\ cycle[c].at = "idle"
    /\ hist.runs < MaxConnectRuns
    /\ c = "auto" => (hist.runs = 0 /\ settings.autoSync)
    /\ cycle' = [cycle EXCEPT ![c] =
                    IF settings.secret = ""
                    THEN [at |-> "connecting", key |-> settings.unearthedApiKey]
                    ELSE [at |-> "fetching", key |-> ""]]
    /\ notices' = <<"Unearthed Sync started, please wait...", "Checking connection...">>
    /\ hist' = [hist EXCEPT !.op = "begin", !.log = <<>>, !.fault = NoFault,
                            !.runs = hist.runs + 1,
                            !.started = @ \/ c = "auto",
                            !.issued = settings.secret = ""]
    /\ UNCHANGED <<files, folders, settings, remote, remoteTags, reflection,
                   sourceIdToFileName, today, persisted, pc>>

\* The handshake of a cycle is answered: with 200 the secret is stored and
\* saved and the cycle goes on to its fetches; otherwise checkConnection
\* throws and the cycle ends.
ConnectAnswered(c, outcome) ==
    /\ cycle[c].at = "connecting"
    /\ \E y \in {checkConnection([settings EXCEPT !.secret = ""],
                                 [NetOk EXCEPT !.connect = outcome])} :
           /\ settings' = IF y.ok
                          THEN [settings EXCEPT !.secret = SecretOf(cycle[c].key)]
                          ELSE settings
           /\ persisted' = IF y.ok THEN settings' ELSE persisted
           /\ cycle' = [cycle EXCEPT ![c] = IF y.ok THEN [at |-> "fetching", key |-> ""]
                                            ELSE Idle]
           /\ notices' = Tail(y.notices)
                  \o (IF y.ok THEN <<>>
                      ELSE <<"Sync failed. Check console for details.">>
                           \o (IF c = "auto"
                               THEN <<"Unearthed Sync failed. Check console for details.">>
                               ELSE <<>>))
           /\ hist' = [hist EXCEPT
                  !.op = "answer", !.log = <<>>, !.fault = NoFault, !.issued = FALSE,
                  !.handshakes = IF y.ok /\ cycle[c].key = settings.unearthedApiKey
                                 THEN @ + 1 ELSE @,
                  !.secretKey = IF y.ok THEN cycle[c].key ELSE @]
    /\ UNCHANGED <<files, folders, remote, remoteTags, reflection,
                   sourceIdToFileName, today, pc>>

\* A cycle past checkConnection runs to its end: the fetches with the key
\* and the secret of the settings at that moment, the data, the notice.
FinishCycle(c, net, fault) ==
    /\ cycle[c].at = "fetching"
    /\ \E y \in {syncDataFetched(files, folders, settings, sourceIdToFileName, remote,
                                 remoteTags, net, fault, TRUE, <<>>)} :
           /\ files' = y.files
           /\ folders' = y.folders
           /\ settings' = IF c = "auto" /\ ~y.rejected
                          THEN [settings EXCEPT !.lastSyncDate = today] ELSE settings
           /\ persisted' = IF c = "auto" /\ ~y.rejected THEN settings' ELSE persisted
           /\ sourceIdToFileName' = y.map
           /\ notices' = y.notices
                  \o (IF ~y.rejected THEN <<"Unearthed Sync complete">>
                      ELSE IF c = "auto"
                      THEN <<"Unearthed Sync failed. Check console for details.">>
                      ELSE <<>>)
           /\ hist' = [hist EXCEPT
                  !.op = "fetch", !.log = <<>>, !.fault = fault, !.issued = FALSE,
                  !.rejected = y.rejected,
                  !.input = <<settings.unearthedApiKey, settings.secret>>]
    /\ cycle' = [cycle EXCEPT ![c] = Idle]
    /\ UNCHANGED <<remote, remoteTags, reflection, today, pc>>

NextConnect ==
    \/ \E value \in ApiKeys : SetUnearthedApiKey(value)
    \/ \E c \in CycleIds : BeginCycle(c)
    \/ \E c \in CycleIds, outcome \in ConnectOutcomes : ConnectAnswered(c, outcome)
    \/ \E c \in CycleIds, net \in CycleNets : FinishCycle(c, net, NoFault)

SpecConnect == InitConnect /\ [][NextConnect]_vars

\* C20: a handshake is sent only while no secret is cached; with an unchanged
\* API key at most one handshake is answered 200, and after it no cycle sends
\* one again, also when cycles overlap; a change of the API key clears the
\* secret, and the cycle that begins next sends a handshake with the new key
\* before it fetches.
C20_HandshakeOncePerSecret ==
    [][/\ (hist'.op = "begin" /\ hist'.issued)
            => (settings.secret = "" /\ hist.handshakes = 0)
       /\ hist'.handshakes <= 1
       /\ hist'.op = "key" => settings'.secret = ""
       /\ (hist'.op = "begin" /\ hist.secretKey # settings.unearthedApiKey)
            => hist'.issued]_vars

-----------------------------------------------------------------------------
(* SpecOrder: the calls of one entry point, one after the other            *)

MaxOrderRuns == 2
EntryPoints == {"startup", "ribbon", "sync", "link", "reflection"}

\* A request fails ("error") when the service refuses it, when the network
\* breaks, or when the service does not answer and the timer of
\* requestWithTimeout rejects it; the invocation keeps the scope in which a
\* request failed.
\* One call of a handler: what it does, whether it stands inside syncData
\* (whose catch shows its notice and throws again), and the scope that ends
\* when it throws: getAndAppendDailyReflection catches everything
\* ("reflect"), performBackgroundSync does too ("auto"), a button or the
\* ribbon lets the rejection pass ("handler").
Call(do, scope, sync) == [do |-> do, scope |-> scope, sync |-> sync]

\* syncData(plugin, applyTheData) as its calls.
SyncCalls(scope, applyTheData) ==
    <<Call("checkConnection", scope, TRUE), Call("fetchSources", scope, TRUE),
      Call("fetchTags", scope, TRUE), Call("populate", scope, TRUE)>>
    \o (IF applyTheData
        THEN <<Call("applyData", scope, TRUE), Call("applyTags", scope, TRUE)>>
        ELSE <<>>)

\* getAndAppendDailyReflection(plugin) as its calls.
ReflectCalls ==
    <<Call("checkConnection", "reflect", FALSE), Call("guards", "reflect", FALSE)>>
    \o SyncCalls("reflect", FALSE)
    \o <<Call("fetchDailyReflection", "reflect", FALSE),
         Call("appendToDailyNote", "reflect", FALSE)>>

\* Mutant of LinkCalls: the button links without its syncData.
LinkCalls_NoSync ==
    <<Call("fetchTags", "handler", FALSE), Call("applyTags", "handler", FALSE)>>

\* The "Link Tags" button as its calls.
LinkCalls ==
    SyncCalls("handler", FALSE)
    \o <<Call("fetchTags", "handler", FALSE), Call("applyTags", "handler", FALSE)>>

\* The calls of an entry point under the settings st, on a day when the
\* startup gate is open.
Calls(entry, st) ==
    CASE entry = "startup" ->
            (IF st.addDailyReflection THEN ReflectCalls ELSE <<>>)
            \o (IF st.autoSync
                THEN <<Call("started", "auto", FALSE)>> \o SyncCalls("auto", TRUE)
                     \o <<Call("done", "auto", FALSE)>>
                ELSE <<>>)
      [] entry = "ribbon" ->
            ReflectCalls \o SyncCalls("handler", TRUE) \o <<Call("done", "handler", FALSE)>>
      [] entry = "sync" -> SyncCalls("handler", TRUE) \o <<Call("done", "handler", FALSE)>>
      [] entry = "link" -> LinkCalls \o <<Call("done", "handler", FALSE)>>
      [] OTHER -> ReflectCalls \o <<Call("done", "handler", FALSE)>>

\* The notices of the catch blocks a throwing call passes.
CaughtNotices(call) ==
    (IF call.sync THEN <<"Sync failed. Check console for details.">> ELSE <<>>)
    \o (IF call.scope = "reflect" THEN ReflectionSyncFailed
        ELSE IF call.scope = "auto"
        THEN <<"Unearthed Sync failed. Check console for details.">>
        ELSE <<>>)

\* The calls left when the scope of the first call ends, by a throw or by a
\* return: the handler goes on after getAndAppendDailyReflection and ends
\* otherwise.
Left(calls) ==
    IF Head(calls).scope = "reflect"
    THEN SelectSeq(Tail(calls), LAMBDA x : x.scope # "reflect")
    ELSE <<>>

NoInvocation ==
    [kind |-> "none", calls |-> <<>>, data |-> <<>>, tags |-> <<>>,
     populated |-> FALSE, currentDate |-> 0, timedOut |-> "none"]

InitOrder ==
    /\ files = WriteFile(<<>>, DailyNotePath(DEFAULT_SETTINGS, 1), JournalText)
    /\ folders = <<>>
    /\ settings = [DEFAULT_SETTINGS EXCEPT !.unearthedApiKey = "key", !.autoSync = TRUE,
                                           !.addDailyReflection = TRUE]
    /\ remote \in {<<>>, <<[SourcePool[1] EXCEPT !.quotes = <<QuoteA>>]>>}
    /\ remoteTags = <<TagPool[1]>>
    /\ reflection = Reflection("s1", <<"x">>, <<>>)
    /\ sourceIdToFileName = <<>>
    /\ today = 1
    /\ persisted = settings
    /\ pc = "idle"
    /\ cycle = NoInvocation
    /\ notices = <<>>
    /\ hist = NoHist

Now(do) == cycle.calls # <<>> /\ Head(cycle.calls).do = do

\* An entry point is invoked; the startup is the first of a process.
Enter(entry) ==
    /\ cycle.calls = <<>>
    /\ hist.runs < MaxOrderRuns
    /\ entry = "startup" => hist.runs = 0
    /\ cycle' = [NoInvocation EXCEPT !.kind = entry, !.calls = Calls(entry, settings),
                                     !.currentDate = today]
    /\ notices' = IF entry \in {"ribbon", "sync", "reflection"}
                  THEN <<"Unearthed Sync started, please wait...">>
                  ELSE IF entry = "link"
                  THEN <<"Syncing and linking tags, please wait...">>
                  ELSE <<>>
    /\ hist' = [hist EXCEPT !.op = "enter", !.runs = hist.runs + 1, !.log = <<>>,
                            !.fault = NoFault]
    /\ UNCHANGED <<files, folders, settings, remote, remoteTags, reflection,
                   sourceIdToFileName, today, persisted, pc>>

\* new Notice("Unearthed Sync started, please wait...") of the startup.
CallStarted ==
    /\ Now("started")
    /\ cycle' = [cycle EXCEPT !.calls = Tail(@)]
    /\ notices' = notices \o <<"Unearthed Sync started, please wait...">>
    /\ hist' = [hist EXCEPT !.op = "started"]
    /\ UNCHANGED <<files, folders, settings, remote, remoteTags, reflection,
                   sourceIdToFileName, today, persisted, pc>>

CallCheckConnection(outcome) ==
    /\ Now("checkConnection")
    /\ \E c \in {checkConnection(settings, [NetOk EXCEPT !.connect = outcome])} :
           /\ settings' = c.settings
           /\ persisted' = c.settings
           /\ cycle' = [cycle EXCEPT !.calls = IF c.ok THEN Tail(@) ELSE Left(@),
                                     !.timedOut = IF ~c.ok /\ outcome = "error"
                                                  THEN Head(cycle.calls).scope ELSE @]
           /\ notices' = notices \o c.notices
                  \o (IF c.ok THEN <<>> ELSE CaughtNotices(Head(cycle.calls)))
    /\ hist' = [hist EXCEPT !.op = "checkConnection"]
    /\ UNCHANGED <<files, folders, remote, remoteTags, reflection,
                   sourceIdToFileName, today, pc>>

\* The tests of the folder and of the date format of the daily note.
CallGuards ==
    /\ Now("guards")
    /\ cycle' = [cycle EXCEPT !.calls =
                    IF settings.dailyReflectionLocation = ""
                       \/ settings.dailyReflectionDateFormat = ""
                    THEN Left(@) ELSE Tail(@)]
    /\ notices' = notices
           \o (IF settings.dailyReflectionLocation = ""
               THEN <<"Please specify a Daily Note folder location">>
               ELSE IF settings.dailyReflectionDateFormat = ""
               THEN <<"Please specify a Daily Note date format">>
               ELSE <<>>)
    /\ hist' = [hist EXCEPT !.op = "guards"]
    /\ UNCHANGED <<files, folders, settings, remote, remoteTags, reflection,
                   sourceIdToFileName, today, persisted, pc>>

CallFetchSources(outcome) ==
    /\ Now("fetchSources")
    /\ cycle' = [cycle EXCEPT !.calls = IF outcome = "ok" THEN Tail(@) ELSE Left(@),
                              !.data = IF outcome = "ok" THEN remote ELSE @,
                              !.timedOut = IF outcome = "ok" THEN @
                                           ELSE Head(cycle.calls).scope]
    /\ notices' = notices \o <<"Fetching sources...">>
           \o (IF outcome = "ok" THEN <<>> ELSE CaughtNotices(Head(cycle.calls)))
    /\ hist' = [hist EXCEPT !.op = "fetchSources"]
    /\ UNCHANGED <<files, folders, settings, remote, remoteTags, reflection,
                   sourceIdToFileName, today, persisted, pc>>

CallFetchTags(outcome) ==
    /\ Now("fetchTags")
    /\ cycle' = [cycle EXCEPT !.calls = Tail(@),
                              !.tags = fetchTags(remoteTags, [NetOk EXCEPT !.tags = outcome]),
                              !.timedOut = IF outcome = "ok" THEN @
                                           ELSE Head(cycle.calls).scope]
    /\ notices' = notices
           \o (IF Head(cycle.calls).sync THEN <<"Fetching tags...">> ELSE <<>>)
    /\ hist' = [hist EXCEPT !.op = "fetchTags"]
    /\ UNCHANGED <<files, folders, settings, remote, remoteTags, reflection,
                   sourceIdToFileName, today, persisted, pc>>

\* sourceIdToFileName.clear() and the set() of every fetched item.
CallPopulate ==
    /\ Now("populate")
    /\ sourceIdToFileName' = FileNameMap(settings, cycle.data)
    /\ cycle' = [cycle EXCEPT !.calls = Tail(@), !.populated = TRUE]
    /\ notices' = notices
           \o (IF cycle.data # <<>> THEN <<"Processing sources...">> ELSE <<>>)
    /\ hist' = [hist EXCEPT !.op = "populate"]
    /\ UNCHANGED <<files, folders, settings, remote, remoteTags, reflection,
                   today, persisted, pc>>

CallApplyData ==
    /\ Now("applyData")
    /\ \E a \in {IF cycle.data # <<>>
                 THEN applyData(files, folders, settings, cycle.data, NoFault)
                 ELSE [files |-> files, folders |-> folders, log |-> <<>>]} :
           /\ files' = a.files
           /\ folders' = a.folders
    /\ cycle' = [cycle EXCEPT !.calls = Tail(@)]
    /\ notices' = notices
           \o (IF cycle.data # <<>> THEN <<"Creating/updating source files...">> ELSE <<>>)
    /\ hist' = [hist EXCEPT !.op = "applyData"]
    /\ UNCHANGED <<settings, remote, remoteTags, reflection, sourceIdToFileName,
                   today, persisted, pc>>

\* applyTags(plugin, tagsData), which reads sourceIdToFileName, when there
\* are tags.
CallApplyTags ==
    /\ Now("applyTags")
    /\ \E t \in {IF cycle.tags # <<>>
                 THEN applyTags(files, folders, settings, sourceIdToFileName,
                                cycle.tags, NoFault)
                 ELSE [files |-> files, folders |-> folders]} :
           /\ files' = t.files
           /\ folders' = t.folders
    /\ cycle' = [cycle EXCEPT !.calls = Tail(@)]
    /\ notices' = notices
           \o (IF cycle.tags # <<>> /\ Head(cycle.calls).sync
               THEN <<"Processing tags...">> ELSE <<>>)
    /\ hist' = [hist EXCEPT !.op = IF cycle.tags # <<>> THEN "read" ELSE "applyTags",
                            !.input = <<cycle.kind>>]
    /\ UNCHANGED <<settings, remote, remoteTags, reflection, sourceIdToFileName,
                   today, persisted, pc>>

CallFetchDailyReflection(outcome) ==
    /\ Now("fetchDailyReflection")
    /\ cycle' = [cycle EXCEPT !.calls = IF outcome = "ok" THEN Tail(@) ELSE Left(@),
                              !.timedOut = IF outcome = "error"
                                           THEN Head(cycle.calls).scope ELSE @]
    /\ notices' = notices
           \o (IF outcome = "none" THEN <<"No daily reflection available">>
               ELSE IF outcome = "error" THEN CaughtNotices(Head(cycle.calls))
               ELSE <<>>)
    /\ hist' = [hist EXCEPT !.op = "fetchDailyReflection"]
    /\ UNCHANGED <<files, folders, settings, remote, remoteTags, reflection,
                   sourceIdToFileName, today, persisted, pc>>

\* appendToDailyNote(plugin, filePath, dailyReflection), which reads
\* sourceIdToFileName when the daily note is there.
CallAppendToDailyNote ==
    /\ Now("appendToDailyNote")
    /\ \E a \in {appendToDailyNote(files, settings, sourceIdToFileName,
                                   DailyNotePath(settings, today), reflection, NoFault)} :
           /\ files' = a.files
           /\ notices' = notices \o a.notices
                  \o (IF a.threw THEN <<"Failed to add daily reflection">>
                      ELSE IF DailyNotePath(settings, today) \in DOMAIN files
                      THEN <<"Daily reflection added successfully">>
                      ELSE <<>>)
    /\ cycle' = [cycle EXCEPT !.calls = Tail(@)]
    /\ hist' = [hist EXCEPT
           !.op = IF DailyNotePath(settings, today) \in DOMAIN files
                  THEN "read" ELSE "appendToDailyNote",
           !.input = <<cycle.kind>>]
    /\ UNCHANGED <<folders, settings, remote, remoteTags, reflection,
                   sourceIdToFileName, today, persisted, pc>>

\* The last notice of a handler; the background sync stores its date.
CallDone ==
    /\ Now("done")
    /\ settings' = IF cycle.kind = "startup"
                   THEN [settings EXCEPT !.lastSyncDate = cycle.currentDate]
                   ELSE settings
    /\ persisted' = IF cycle.kind = "startup" THEN settings' ELSE persisted
    /\ notices' = notices
           \o (IF cycle.kind = "link" THEN <<"Tags linked to sources successfully">>
               ELSE IF cycle.kind = "reflection" THEN <<"Complete - check your daily note">>
               ELSE <<"Unearthed Sync complete">>)
    /\ cycle' = [cycle EXCEPT !.calls = Tail(@)]
    /\ hist' = [hist EXCEPT !.op = "done"]
    /\ UNCHANGED <<files, folders, remote, remoteTags, reflection,
                   sourceIdToFileName, today, pc>>

NextOrder ==
    \/ \E entry \in EntryPoints : Enter(entry)
    \/ CallStarted
    \/ \E outcome \in ConnectOutcomes : CallCheckConnection(outcome)
    \/ CallGuards
    \/ \E outcome \in FetchOutcomes : CallFetchSources(outcome)
    \/ \E outcome \in FetchOutcomes : CallFetchTags(outcome)
    \/ CallPopulate
    \/ CallApplyData
    \/ CallApplyTags
    \/ \E outcome \in ReflectionOutcomes : CallFetchDailyReflection(outcome)
    \/ CallAppendToDailyNote
    \/ CallDone

SpecOrder == InitOrder /\ [][NextOrder]_vars

\* C21: in every entry point the Tag Cross-Linker and the Daily Reflection
\* Injector read the map only after this invocation has fetched the sources
\* and populated the map from them.
C21_MapPopulatedBeforeRead ==
    [][hist'.op = "read"
          => (/\ cycle.populated
              /\ sourceIdToFileName = FileNameMap(settings, cycle.data)
              /\ cycle.data = remote)]_vars

\* C21 witness: the "Link Tags" button has linked a tag with the map of its
\* own fetch of one source.
C21_Witness ==
    /\ hist.op = "read"
    /\ hist.input = <<"link">>
    /\ cycle.populated
    /\ DOMAIN sourceIdToFileName # {}
    /\ TagFiles(files) # {}

-----------------------------------------------------------------------------
(* SpecMap: the map from cycle to cycle                                    *)

\* The user removes every source on the service.
SourcesGone ==
    /\ remote # <<>>
    /\ hist.op \in {"link", "sync"}
    /\ remote' = <<>>
    /\ hist' = [hist EXCEPT !.op = "remote", !.log = <<>>, !.fault = NoFault]
    /\ UNCHANGED <<files, folders, settings, remoteTags, reflection,
                   sourceIdToFileName, today, persisted, pc, cycle, notices>>

NextMap ==
    \/ TagAdd
    \/ SourcesGone
    \/ \E net \in SyncNets : LinkTags(net, NoFault)
    \/ \E net \in SyncNets : ManualSync(net, NoFault)

SpecMap == InitTags /\ [][NextMap]_vars

\* The ids of a list of sources.
Ids(data) == {data[k].id : k \in 1..Len(data)}

\* C22: after the fetches of a cycle the keys of the map are the ids of the
\* sources this cycle fetched, each with its safe rendered file name, new
\* file or not; a cycle whose fetch fails or gives no sources leaves no
\* entry of an earlier cycle in the map.
C22_MapRebuiltEveryCycle ==
    [][hist'.op \in {"sync", "link"}
          => IF hist'.rejected
             THEN sourceIdToFileName' = <<>>
             ELSE /\ DOMAIN sourceIdToFileName' = Ids(remote)
                  /\ \A k \in 1..Len(remote) :
                        sourceIdToFileName'[remote[k].id] = SourceFileName(settings', remote[k])]_vars

-----------------------------------------------------------------------------
(* SpecDate: who writes lastSyncDate                                       *)

NextDate ==
    \/ Midnight
    \/ \E net \in RibbonNets : Startup(net, NoFault)
    \/ \E net \in CycleNets, fault \in SyncFaults : BackgroundSync(net, fault)
    \/ \E net \in CycleNets : ManualSync(net, NoFault)
    \/ \E net \in CycleNets : LinkTags(net, NoFault)
    \/ \E net \in RibbonNets : InjectReflection(net, NoFault)
    \/ \E net1 \in RibbonNets, net2 \in CycleNets : Ribbon(net1, net2, NoFault)

SpecDate == InitSync /\ [][NextDate]_vars

\* C23: lastSyncDate changes only at the end of an automatic sync that did
\* not fail, and becomes the date computed at that startup; a failed
\* automatic sync, a manual sync, a ribbon sync, a link-tags run and a
\* reflection injection leave it as it is.
C23_LastSyncDateOnlyByAutoSync ==
    [][/\ settings'.lastSyncDate # settings.lastSyncDate
            => (hist'.op = "auto" /\ ~hist'.rejected)
       /\ hist'.op = "auto"
            => settings'.lastSyncDate =
                  IF hist'.rejected THEN settings.lastSyncDate ELSE cycle.currentDate
       /\ hist'.op \in {"sync", "link", "inject", "ribbon"}
            => (/\ settings'.lastSyncDate = settings.lastSyncDate
                /\ persisted'.lastSyncDate = persisted.lastSyncDate)]_vars

\* C23 witness: an automatic sync launched on day 1 ended after midnight and
\* stored day 1.
C23_Witness ==
    /\ hist.op = "auto"
    /\ ~hist.rejected
    /\ today = 2
    /\ settings.lastSyncDate = 1

-----------------------------------------------------------------------------
(* SpecMarker: what the marker scan reads back from written quotes         *)

MaxWritten == 2

\* The quote templates with the content placeholder once.
MarkerTemplates == {<<"{{content}}">>, QUOTE_TEMPLATE_EXAMPLE, NoteTemplate}

\* The lists of quotes a file may hold, each quote with its own content.
WrittenQuotes ==
    {qs \in SeqsUpTo(RenderQuotes, MaxWritten) :
        \A j, k \in 1..Len(qs) : j # k => qs[j].content # qs[k].content}

\* extractExistingQuotesUsingTemplate(fileData) on the text of a file that
\* holds a title line and the blocks of the quotes, as applyData wrote them
\* under the template of the settings.
MarkerExtraction(quotes) ==
    /\ settings.quoteTemplate # <<>>
    /\ \E fileData \in {<<"# T", NL>> \o RenderAll(settings, quotes)} :
          hist' = [NoHist EXCEPT !.op = "extract", !.input = quotes, !.base = fileData,
                                 !.output = extractExistingQuotesUsingTemplate(fileData)]
    /\ UNCHANGED <<files, folders, settings, remote, remoteTags, reflection,
                   sourceIdToFileName, today, persisted, pc, cycle, notices>>

NextMarker ==
    \/ \E value \in MarkerTemplates : SetQuoteTemplate(value)
    \/ \E quotes \in WrittenQuotes : MarkerExtraction(quotes)

SpecMarker == InitName /\ [][NextMarker]_vars

\* C24: the marker scan gives the strings between the successive pairs of
\* markers as they stand in the text, untrimmed, so for a file of written
\* quotes the contents of these quotes in their order; a quote is taken as
\* present iff its content equals one of them, so every written quote, also
\* one with white space at an end, is taken as present.
C24_MarkerScanVerbatim ==
    hist.op = "extract" =>
        /\ hist.output = [k \in 1..Len(hist.input) |-> hist.input[k].content]
        /\ \A k \in 1..Len(hist.input) : ~QuoteIsNew(hist.output, hist.input[k])
        /\ \A q \in RenderQuotes :
              QuoteIsNew(hist.output, q)
                 <=> \A k \in 1..Len(hist.input) : hist.input[k].content # q.content

-----------------------------------------------------------------------------
(* SpecTemplates: merges under a quote template that changes               *)

InitTemplates ==
    /\ files = <<>>
    /\ folders = <<>>
    /\ settings \in {[DEFAULT_SETTINGS EXCEPT !.quoteTemplate = qt] :
                        qt \in RenderQuoteTemplates}
    /\ remote = <<[SourcePool[1] EXCEPT !.quotes = <<QuoteA, QuoteB>>]>>
    /\ remoteTags = <<>>
    /\ reflection = NoReflection
    /\ sourceIdToFileName = <<>>
    /\ today = 1
    /\ persisted = settings
    /\ pc = "idle"
    /\ cycle = NoCycle
    /\ notices = <<>>
    /\ hist = NoHist

\* The text area "Quote template" between two merges.
ChangeQuoteTemplate(value) ==
    /\ hist.op = "merge"
    /\ settings.quoteTemplate # value
    /\ settings' = [settings EXCEPT !.quoteTemplate = value]
    /\ persisted' = settings'
    /\ hist' = [hist EXCEPT !.op = "settings", !.log = <<>>, !.fault = NoFault]
    /\ UNCHANGED <<files, folders, remote, remoteTags, reflection,
                   sourceIdToFileName, today, pc, cycle, notices>>

NextTemplates ==
    \/ \E value \in RenderQuoteTemplates : ChangeQuoteTemplate(value)
    \/ Merge(NoFault)

SpecTemplates == InitTemplates /\ [][NextTemplates]_vars

\* C25: with the same remote data, a merge that follows a merge under a
\* non-empty quote template appends no quote block, whatever non-empty
\* template the second merge runs under.
C25_RecognisedAcrossTemplates ==
    [][(hist'.op = "merge" /\ hist.runs >= 1) => files' = files]_vars

-----------------------------------------------------------------------------
(* SpecFolders: the folders of the types                                   *)

\* A book, a BOOK and an article, one quote each.
FolderSources == {[SourcePool[1] EXCEPT !.quotes = <<QuoteA>>], BookKa, ArticleTa}

\* The failures of createFolder: none, or that of one type folder.
FolderFaults ==
    {NoFault} \cup {[NoFault EXCEPT !.mkdir = {f}] : f \in {BooksFolder, ArticlesFolder}}

InitFolders ==
    /\ files = <<>>
    /\ folders \in {<<>>, <<BooksFolder>>}
    /\ settings = DEFAULT_SETTINGS
    /\ remote \in {data \in SeqsUpTo(FolderSources, 3) :
                     /\ data # <<>>
                     /\ \A j, k \in 1..Len(data) : j # k => data[j] # data[k]}
    /\ remoteTags = <<>>
    /\ reflection = NoReflection
    /\ sourceIdToFileName = <<>>
    /\ today = 1
    /\ persisted = settings
    /\ pc = "idle"
    /\ cycle = NoCycle
    /\ notices = <<>>
    /\ hist = NoHist

NextFolders ==
    \/ \E i \in 1..Len(remote) : AddQuote(i, QuoteB)
    \/ \E fault \in FolderFaults : Merge(fault)

SpecFolders == InitFolders /\ [][NextFolders]_vars

\* The folder the type of a source stands for.
FolderOfType(item) ==
    IF item.type \in {<<"b", "o", "o", "k">>, <<"B", "O", "O", "K">>}
    THEN BooksFolder ELSE ArticlesFolder

Occurrences(fds, folder) == Cardinality({k \in 1..Len(fds) : fds[k] = folder})

\* C26: a merge writes the file of every source at <Type>s/<filename>.md
\* with Type the type, first letter upper case and the rest lower case, so
\* "book" and "BOOK" share Books; after it every type folder is there once,
\* unless its creation failed, and the merge goes on past a folder that is
\* there already or could not be created.
C26_OneFolderPerType ==
    [][hist'.op = "merge"
          => /\ \A k \in 1..Len(remote) :
                   /\ hist'.log[k].path
                         = Path(FolderOfType(remote[k]), SourceFileName(settings, remote[k]))
                   /\ Occurrences(folders', FolderOfType(remote[k]))
                         = IF HasFolder(folders, FolderOfType(remote[k]))
                              \/ FolderOfType(remote[k]) \notin hist'.fault.mkdir
                           THEN 1 ELSE 0
                   /\ HasFolder(folders', FolderOfType(remote[k]))
                         => hist'.log[k].path \in DOMAIN files'
             /\ Len(hist'.log) = Len(remote)
             /\ DOMAIN files' \ DOMAIN files
                   \subseteq {Path(FolderOfType(remote[k]), SourceFileName(settings, remote[k])) :
                                 k \in 1..Len(remote)}
             /\ \A k \in 1..Len(folders') :
                   HasFolder(folders, folders'[k])
                      \/ \E j \in 1..Len(remote) : FolderOfType(remote[j]) = folders'[k]]_vars

\* C26 witness: a book, a BOOK and an article were merged while the folder
\* Articles could not be created: both books are in the one folder Books.
C26_Witness ==
    /\ hist.op = "merge"
    /\ Len(remote) = 3
    /\ hist.fault.mkdir = {ArticlesFolder}
    /\ Occurrences(folders, BooksFolder) = 1
    /\ ~HasFolder(folders, ArticlesFolder)
    /\ Cardinality({p \in DOMAIN files : p.folder = BooksFolder}) = 2

-----------------------------------------------------------------------------
(* SpecTimeout: the invocations run to their end                           *)

\* The invocation in flight goes on by one call: the first call is taken
\* off, alone or with the rest of its scope, and the invocation keeps what
\* the call fetched.
Advance ==
    /\ cycle.calls # <<>>
    /\ \E calls \in {Tail(cycle.calls), Left(cycle.calls)},
          data \in {cycle.data, remote},
          tags \in {cycle.tags, remoteTags, <<>>},
          populated \in BOOLEAN,
          timedOut \in {cycle.timedOut, Head(cycle.calls).scope} :
          cycle' = [cycle EXCEPT !.calls = calls, !.data = data, !.tags = tags,
                                 !.populated = populated, !.timedOut = timedOut]

\* Every awaited promise settles, a request at the latest by its timer, and
\* the continuation is then run: a call that is due is taken.
SpecTimeout == InitOrder /\ [][NextOrder]_vars /\ WF_cycle(Advance)

\* The notices a sync or reflection cycle may end with.
EndNotices ==
    {"Unearthed Sync complete", "Complete - check your daily note",
     "Tags linked to sources successfully", "Sync failed. Check console for details.",
     "Unearthed Sync failed. Check console for details.", ReflectionSyncFailed[1],
     "Daily reflection added successfully", "Failed to add daily reflection",
     "No daily reflection available", "Daily note does not exist"}

Ended == cycle.calls = <<>> /\ notices # <<>> /\ notices[Len(notices)] \in EndNotices

\* C27: a request is answered or rejected, by its timer at the latest, so an
\* invocation that has calls left comes to its end with a notice of
\* completion or of failure; and from a request that was rejected on, the
\* cycle it belongs to changes no file.
C27_TimeoutEndsTheCycle ==
    /\ (cycle.calls # <<>>) ~> Ended
    /\ [][(cycle.calls # <<>> /\ cycle.timedOut = Head(cycle.calls).scope)
             => files' = files]_vars

-----------------------------------------------------------------------------
(* SpecLiteral: field values that look like placeholders                   *)

\* Quotes and reflections whose content is the text of a placeholder, and
\* plain ones; none is highlighted.
QuoteP == Quote(<<"{{note}}">>, <<"n1">>, <<"loc1">>, <<>>)
QuoteL == Quote(<<"a", "{{location}}">>, <<>>, <<"loc2">>, <<>>)
LiteralQuotes == {QuoteA, QuoteB, QuoteP, QuoteL}
ReflectionP == [Reflection("s1", <<"{{note}}">>, <<>>) EXCEPT !.note = <<"n1">>]
ReflectionL == [Reflection("s1", <<"x">>, <<>>) EXCEPT !.author = <<"{{location}}">>]
LiteralReflections == {Reflection("s1", <<"x">>, <<>>), ReflectionP, ReflectionL}

LiteralQuoteTemplates ==
    (SeqsUpTo({"{{content}}", "{{note}}", "{{location}}"}, MaxTemplateLen) \ {<<>>})
    \cup {QUOTE_TEMPLATE_EXAMPLE}
LiteralReflectionTemplates ==
    (SeqsUpTo({"{{quote}}", "{{author}}", "{{location}}", "{{note}}"}, MaxTemplateLen)
        \ {<<>>})
    \cup {DAILY_REFLECTION_TEMPLATE_EXAMPLE}

NextLiteral ==
    \/ \E value \in LiteralQuoteTemplates : SetQuoteTemplate(value)
    \/ \E value \in LiteralReflectionTemplates : SetDailyReflectionTemplate(value)
    \/ \E quote \in LiteralQuotes : QuoteThroughTemplate(quote)
    \/ \E r \in LiteralReflections : ReflectionThroughTemplate(r)

SpecLiteral == InitName /\ [][NextLiteral]_vars

\* The text that stands for a placeholder of the quote template.
QuoteField(quote, ph) ==
    CASE ph = "{{content}}" -> <<HIDDEN_CHAR>> \o quote.content \o <<HIDDEN_CHAR>>
      [] ph = "{{note}}" -> quote.note
      [] ph = "{{location}}" -> quote.location
      [] OTHER -> quote.color

\* The text that stands for a placeholder of the reflection template.
ReflectionField(r, ph) ==
    CASE ph = "{{quote}}" -> r.quote
      [] ph = "{{type}}" -> <<"B", "o", "o", "k">>
      [] ph = "{{source}}" -> r.source
      [] ph = "{{author}}" -> r.author
      [] ph = "{{location}}" -> r.location
      [] ph = "{{note}}" -> r.note
      [] OTHER -> ReflectionBody(settings, sourceIdToFileName, r)

\* The template with the first occurrence of each of its placeholders
\* replaced by the field's text, all at once: the text of a field is put in
\* and not looked at again.
Substituted(template, placeholders, Field(_)) ==
    Flatten([k \in 1..Len(template) |->
        IF template[k] \in placeholders /\ IndexFrom(template, template[k], 1) = k
        THEN Field(template[k]) ELSE <<template[k]>>])

\* C28: a field value that holds the text of a placeholder comes out as it
\* is: the rendered quote or reflection is the template with its own
\* placeholders replaced, and nothing inside a value is replaced.
C28_FieldValuesAreLiteral ==
    /\ hist.op = "quote" =>
           hist.output = <<NL>> \o Substituted(settings.quoteTemplate, QuotePlaceholders,
                                               LAMBDA ph : QuoteField(hist.input, ph))
    /\ hist.op = "reflection" =>
           hist.output = Substituted(settings.dailyReflectionTemplate, ReflectionPlaceholders,
                                     LAMBDA ph : ReflectionField(hist.input, ph))

-----------------------------------------------------------------------------
(* SpecRace: two sync cycles interleaved at the awaits of applyData        *)

\* A cycle between two of its awaits: what it fetched and the text it built
\* from what it read.
Resting == [at |-> "idle", data |-> <<>>, content |-> <<>>]

InitRace ==
    /\ files = <<>>
    /\ folders = <<>>
    /\ settings \in {DEFAULT_SETTINGS,
                     [DEFAULT_SETTINGS EXCEPT !.quoteTemplate = QUOTE_TEMPLATE_EXAMPLE]}
    /\ remote \in {<<[SourcePool[1] EXCEPT !.quotes = qs]>> : qs \in {<<>>, <<QuoteA>>}}
    /\ remoteTags = <<>>
    /\ reflection = NoReflection
    /\ sourceIdToFileName = <<>>
    /\ today = 1
    /\ persisted = settings
    /\ pc = "idle"
    /\ cycle = [c \in CycleIds |-> Resting]
    /\ notices = <<>>
    /\ hist = NoHist

\* syncData up to the answer of fetchSources: the automatic cycle is the one
\* onload starts, the manual one comes from the button.
RaceFetch(c) ==
    /\ cycle[c].at = "idle"
    /\ hist.runs < MaxRuns
    /\ c = "auto" => hist.runs = 0
    /\ cycle' = [cycle EXCEPT ![c] = [at |-> "fetched", data |-> remote, content |-> <<>>]]
    /\ sourceIdToFileName' = FileNameMap(settings, remote)
    /\ hist' = [hist EXCEPT !.op = "fetch", !.runs = @ + 1, !.log = <<>>, !.fault = NoFault]
    /\ UNCHANGED <<files, folders, settings, remote, remoteTags, reflection, today,
                   persisted, pc, notices>>

\* applyData up to the first await of its loop: the folders of the types.
RaceFolders(c) ==
    /\ cycle[c].at = "fetched"
    /\ folders' = EnsureTypeFolders(EnsureFolder(folders, RootFolder, NoFault),
                                    cycle[c].data, 1, NoFault)
    /\ cycle' = [cycle EXCEPT ![c].at = "loop"]
    /\ hist' = [hist EXCEPT !.op = "folders"]
    /\ UNCHANGED <<files, settings, remote, remoteTags, reflection, sourceIdToFileName,
                   today, persisted, pc, notices>>

\* The text one iteration builds from what vault.read returned: the file (or
\* the header) and the blocks of the quotes it does not find in it.
UpdatedFileContent(fs, st, item) ==
    Bind(SourcePath(st, item), LAMBDA path :
        StartContent(fs, st, item, path, NoFault)
        \o RenderAll(st, QuotesToAppend(ReadExistingQuotes(fs, st, path, NoFault),
                                        item.quotes)))

\* await vault.read(abstractFile) and the synchronous code after it.
RaceRead(c) ==
    /\ cycle[c].at = "loop"
    /\ cycle' = [cycle EXCEPT ![c].at = "read",
                              ![c].content = UpdatedFileContent(files, settings,
                                                                cycle[c].data[1])]
    /\ hist' = [hist EXCEPT !.op = "read"]
    /\ UNCHANGED <<files, folders, settings, remote, remoteTags, reflection,
                   sourceIdToFileName, today, persisted, pc, notices>>

\* await vault.modify(abstractFile, updatedFileContent), or vault.create when
\* the path holds no file at this moment.
RaceWrite(c) ==
    /\ cycle[c].at = "read"
    /\ files' = WriteFile(files, SourcePath(settings, cycle[c].data[1]), cycle[c].content)
    /\ cycle' = [cycle EXCEPT ![c] = Resting]
    /\ hist' = [hist EXCEPT !.op = "write", !.input = c]
    /\ UNCHANGED <<folders, settings, remote, remoteTags, reflection, sourceIdToFileName,
                   today, persisted, pc, notices>>

\* One more highlight reaches the service while cycles are under way.
RaceAddQuote ==
    /\ TotalQuotes(remote) < MaxQuotes
    /\ \E quote \in {QuoteA, QuoteB} :
          /\ \A k \in 1..Len(remote[1].quotes) : remote[1].quotes[k] # quote
          /\ remote' = [remote EXCEPT ![1].quotes = Append(@, quote)]
    /\ hist' = [hist EXCEPT !.op = "remote"]
    /\ UNCHANGED <<files, folders, settings, remoteTags, reflection, sourceIdToFileName,
                   today, persisted, pc, cycle, notices>>

NextRace ==
    \/ \E c \in CycleIds : RaceFetch(c)
    \/ \E c \in CycleIds : RaceFolders(c)
    \/ \E c \in CycleIds : RaceRead(c)
    \/ \E c \in CycleIds : RaceWrite(c)
    \/ RaceAddQuote

SpecRace == InitRace /\ [][NextRace]_vars

\* The contents of the quote blocks a text holds.
BlocksOf(text) == {q.content : q \in {q \in {QuoteA, QuoteB} : Includes(text, q.content[1])}}

\* The number of blocks of a text that carry the content of quote q.
BlockCount(text, q) == Cardinality({k \in 1..Len(text) : text[k] = q.content[1]})

\* C29: under any interleaving of two cycles, a write to a Source file keeps
\* every quote block the file held immediately before it, and no quote
\* content is in the file twice.
C29_NoBlockLostOrDoubled ==
    [][hist'.op = "write"
          => \A p \in DOMAIN files' :
                /\ p \in DOMAIN files => BlocksOf(files[p]) \subseteq BlocksOf(files'[p])
                /\ \A q \in {QuoteA, QuoteB} : BlockCount(files'[p], q) <= 1]_vars

-----------------------------------------------------------------------------
(* SpecLinkRace: two link runs interleaved at the awaits of applyTags      *)

\* The tag the service lists: without source ids, or with the id of the
\* first source; its description may be edited between two fetches.
RaceTags ==
    {Tag("t1", Growth, description, sourceIds) :
        description \in TagDescriptions, sourceIds \in TagSourceIds}

\* The vault before the runs: empty, or with the Source file of an earlier
\* applyData.
InitLinkRace ==
    /\ settings = [DEFAULT_SETTINGS EXCEPT !.unearthedApiKey = "key"]
    /\ remote = <<[SourcePool[1] EXCEPT !.quotes = <<QuoteA>>]>>
    /\ \E r \in {[files |-> <<>>, folders |-> <<>>],
                 applyData(<<>>, <<>>, settings, remote, NoFault)} :
          /\ files = r.files
          /\ folders = r.folders
    /\ remoteTags \in {<<tag>> : tag \in RaceTags}
    /\ reflection = NoReflection
    /\ sourceIdToFileName = <<>>
    /\ today = 1
    /\ persisted = settings
    /\ pc = "idle"
    /\ cycle = [c \in CycleIds |-> Resting]
    /\ notices = <<>>
    /\ hist = NoHist

\* A run up to the answer of fetchTags: the automatic cycle is the one onload
\* starts, the other one comes from the button "Link Tags".  Both have
\* rebuilt the map by then.
LinkFetch(c) ==
    /\ cycle[c].at = "idle"
    /\ hist.runs < MaxTagRuns
    /\ c = "auto" => hist.runs = 0
    /\ cycle' = [cycle EXCEPT ![c] = [at |-> "fetched", data |-> remoteTags, content |-> <<>>]]
    /\ sourceIdToFileName' = FileNameMap(settings, remote)
    /\ hist' = [hist EXCEPT !.op = "fetch", !.runs = @ + 1, !.log = <<>>, !.fault = NoFault]
    /\ UNCHANGED <<files, folders, settings, remote, remoteTags, reflection, today,
                   persisted, pc, notices>>

\* applyTags up to the first await of its loop: the Tags folder.
LinkFolder(c) ==
    /\ cycle[c].at = "fetched"
    /\ folders' = EnsureFolder(folders, TagsFolder, NoFault)
    /\ cycle' = [cycle EXCEPT ![c].at = "loop"]
    /\ hist' = [hist EXCEPT !.op = "folders"]
    /\ UNCHANGED <<files, settings, remote, remoteTags, reflection, sourceIdToFileName,
                   today, persisted, pc, notices>>

\* The try at the end of the iteration: vault.modify when the path holds a
\* file at this moment, vault.create otherwise.
TagWrite(fs, filePath, fileContent) == WriteFile(fs, filePath, fileContent)

\* await fileExists(...) and the check that follows it.  A tag file that is
\* there ends the iteration; a tag without source ids is written without a
\* further await; otherwise the iteration goes on to list the folders.
LinkCheck(c) ==
    /\ cycle[c].at = "loop"
    /\ \E tag \in {cycle[c].data[1]} :
       \E filePath \in {TagPath(files, folders, settings, tag)} :
          IF TagFileThere(files, filePath)
          THEN /\ cycle' = [cycle EXCEPT ![c] = Resting]
               /\ hist' = [hist EXCEPT !.op = "skip", !.input = c]
               /\ UNCHANGED files
          ELSE IF Len(tag.sourceIds) = 0
          THEN /\ cycle' = [cycle EXCEPT ![c] = Resting]
               /\ files' = TagWrite(files, filePath,
                                    TagContent(files, folders, settings,
                                               sourceIdToFileName, tag))
               /\ hist' = [hist EXCEPT !.op = "write", !.input = c, !.output = filePath]
          ELSE /\ cycle' = [cycle EXCEPT ![c].at = "list"]
               /\ hist' = [hist EXCEPT !.op = "check", !.input = c]
               /\ UNCHANGED files
    /\ UNCHANGED <<folders, settings, remote, remoteTags, reflection, sourceIdToFileName,
                   today, persisted, pc, notices>>

\* await adapter.list / adapter.read over the folders, and the fileContent
\* built from them.
LinkList(c) ==
    /\ cycle[c].at = "list"
    /\ cycle' = [cycle EXCEPT ![c].at = "write",
                              ![c].content = TagContent(files, folders, settings,
                                                        sourceIdToFileName,
                                                        cycle[c].data[1])]
    /\ hist' = [hist EXCEPT !.op = "list", !.input = c]
    /\ UNCHANGED <<files, folders, settings, remote, remoteTags, reflection,
                   sourceIdToFileName, today, persisted, pc, notices>>

\* The write at the end of the iteration.
LinkWrite(c) ==
    /\ cycle[c].at = "write"
    /\ \E filePath \in {TagPath(files, folders, settings, cycle[c].data[1])} :
          /\ files' = TagWrite(files, filePath, cycle[c].content)
          /\ hist' = [hist EXCEPT !.op = "write", !.input = c, !.output = filePath]
    /\ cycle' = [cycle EXCEPT ![c] = Resting]
    /\ UNCHANGED <<folders, settings, remote, remoteTags, reflection, sourceIdToFileName,
                   today, persisted, pc, notices>>

\* The user edits the description of the tag while runs are under way.
RaceTagEdit ==
    /\ \E description \in TagDescriptions \ {remoteTags[1].description} :
          remoteTags' = [remoteTags EXCEPT ![1].description = description]
    /\ hist' = [hist EXCEPT !.op = "remote"]
    /\ UNCHANGED <<files, folders, settings, remote, reflection, sourceIdToFileName,
                   today, persisted, pc, cycle, notices>>

NextLinkRace ==
    \/ \E c \in CycleIds : LinkFetch(c)
    \/ \E c \in CycleIds : LinkFolder(c)
    \/ \E c \in CycleIds : LinkCheck(c)
    \/ \E c \in CycleIds : LinkList(c)
    \/ \E c \in CycleIds : LinkWrite(c)
    \/ RaceTagEdit

SpecLinkRace == InitLinkRace /\ [][NextLinkRace]_vars

\* C30: under any interleaving of two link runs, a tag file is written at
\* most once: no run writes to the path of a tag file that is there, and no
\* step of a run changes the text of a tag file.
C30_TagFileWrittenOnce ==
    [][/\ hist'.op = "write" => hist'.output \notin TagFiles(files)
       /\ \A p \in TagFiles(files) : p \in DOMAIN files' /\ files'[p] = files[p]]_vars

-----------------------------------------------------------------------------
(* SpecInjectRace: two injector runs interleaved at their awaits           *)

\* An injector run between two of its awaits: the reflection it fetched, the
\* text it read from the daily note and the block it built.
RestingRun == [at |-> "idle", data |-> NoReflection, content |-> <<>>, block |-> <<>>]

InitInjectRace ==
    /\ files \in {<<>>, WriteFile(<<>>, DailyNotePath(DEFAULT_SETTINGS, 1), JournalText)}
    /\ folders = <<>>
    /\ settings \in {[DEFAULT_SETTINGS EXCEPT !.unearthedApiKey = "key",
                                             !.dailyReflectionTemplate = template] :
                        template \in ReflectionTemplates}
    /\ remote = <<[SourcePool[1] EXCEPT !.quotes = <<QuoteA>>]>>
    /\ remoteTags = <<>>
    /\ reflection \in ReflectionPool
    /\ sourceIdToFileName = <<>>
    /\ today = 1
    /\ persisted = settings
    /\ pc = "idle"
    /\ cycle = [c \in CycleIds |-> RestingRun]
    /\ notices = <<>>
    /\ hist = NoHist

\* getAndAppendDailyReflection up to the answer of fetchDailyReflection: the
\* automatic run is the one onLayoutReady starts, the other one comes from
\* the ribbon or the button.  The sync before the fetch has rebuilt the map.
InjectFetch(c) ==
    /\ cycle[c].at = "idle"
    /\ hist.runs < MaxInjects
    /\ c = "auto" => hist.runs = 0
    /\ cycle' = [cycle EXCEPT ![c] = [RestingRun EXCEPT !.at = "fetched", !.data = reflection]]
    /\ sourceIdToFileName' = FileNameMap(settings, remote)
    /\ hist' = [hist EXCEPT !.op = "fetch", !.runs = @ + 1, !.input = c]
    /\ UNCHANGED <<files, folders, settings, remote, remoteTags, reflection, today,
                   persisted, pc, notices>>

\* appendToDailyNote up to its modify: a note that is not there ends the run,
\* and so does a note in which the check finds a reflection; otherwise the
\* run holds the text it read and the block it is going to append.
InjectRead(c) ==
    /\ cycle[c].at = "fetched"
    /\ \E filePath \in {DailyNotePath(settings, today)} :
          IF filePath \notin DOMAIN files
          THEN /\ cycle' = [cycle EXCEPT ![c] = RestingRun]
               /\ notices' = notices \o <<"Daily note does not exist",
                                           "Daily reflection added successfully">>
               /\ hist' = [hist EXCEPT !.op = "missing", !.input = c]
          ELSE IF ~ReflectionIsNew(settings, files[filePath])
          THEN /\ cycle' = [cycle EXCEPT ![c] = RestingRun]
               /\ notices' = Append(notices, "Daily reflection added successfully")
               /\ hist' = [hist EXCEPT !.op = "present", !.input = c]
          ELSE /\ cycle' = [cycle EXCEPT
                    ![c].at = "read",
                    ![c].content = files[filePath],
                    ![c].block = <<HIDDEN_CHAR>>
                                 \o ReflectionContent(settings, sourceIdToFileName,
                                                      cycle[c].data)
                                 \o <<HIDDEN_CHAR>>]
               /\ notices' = notices
               /\ hist' = [hist EXCEPT !.op = "read", !.input = c]
    /\ UNCHANGED <<files, folders, settings, remote, remoteTags, reflection,
                   sourceIdToFileName, today, persisted, pc>>

\* Mutant of NoteAfter: the block is appended to the note as it is at the
\* write.
NoteAfter_Appends(current, content, block) == current \o block

\* content += hiddenReflectionContent; vault.modify(file, content): the whole
\* note is replaced by the text that was read and the block.
NoteAfter(current, content, block) == content \o block

\* await vault.modify(file, content)
InjectWrite(c) ==
    /\ cycle[c].at = "read"
    /\ \E filePath \in {DailyNotePath(settings, today)} :
          files' = WriteFile(files, filePath,
                             NoteAfter(files[filePath], cycle[c].content, cycle[c].block))
    /\ cycle' = [cycle EXCEPT ![c] = RestingRun]
    /\ notices' = Append(notices, "Daily reflection added successfully")
    /\ hist' = [hist EXCEPT !.op = "write", !.input = c, !.log = Append(@, c)]
    /\ UNCHANGED <<folders, settings, remote, remoteTags, reflection, sourceIdToFileName,
                   today, persisted, pc>>

\* The service picks another reflection while runs are under way.
RacePick ==
    /\ \E r \in ReflectionPool \ {reflection} : reflection' = r
    /\ hist' = [hist EXCEPT !.op = "remote"]
    /\ UNCHANGED <<files, folders, settings, remote, remoteTags, sourceIdToFileName,
                   today, persisted, pc, cycle, notices>>

NextInjectRace ==
    \/ \E c \in CycleIds : InjectFetch(c)
    \/ \E c \in CycleIds : InjectRead(c)
    \/ \E c \in CycleIds : InjectWrite(c)
    \/ RacePick

SpecInjectRace == InitInjectRace /\ [][NextInjectRace]_vars

\* C31: under any interleaving of two injector runs on one day, the daily
\* note holds exactly one reflection block once a run has found or written
\* one, never more than one, and the text it held before the runs is kept as
\* its prefix.
C31_OneBlockUnderInterleaving ==
    \A p \in DOMAIN files :
        /\ ReflectionBlocks(files[p]) <= 1
        /\ hist.op \in {"write", "present"} => ReflectionBlocks(files[p]) = 1
        /\ IsPrefix(JournalText, files[p])

\* Both runs read the note before either wrote, and both have written.
C31_Witness ==
    /\ hist.op = "write"
    /\ Len(hist.log) = 2
    /\ hist.log[1] # hist.log[2]
    /\ \A c \in CycleIds : cycle[c].at = "idle"

-----------------------------------------------------------------------------
(* The merge engine when a read fails                                      *)

\* C32: a merge in which the read of an existing Source file fails leaves
\* that file as it was.
C32_FailedReadLeavesFile ==
    [][hist'.op = "merge" =>
        \A p \in DOMAIN files :
            p \in hist'.fault.read => (p \in DOMAIN files' /\ files'[p] = files[p])]_vars

-----------------------------------------------------------------------------
(* SpecColor: colour styling and the identity of a quote                   *)

QuoteG == Quote(<<"g">>, <<>>, <<"loc6">>, <<"green">>)         \* a colour without a hex
QuoteU == Quote(<<"b">>, <<"note7">>, <<"loc7">>, <<"Blue">>)   \* highlighted blue

\* Quotes of one line without outer white space: plain, highlighted in a
\* colour of the table, highlighted in another colour.
ColorQuotes == {QuoteA, QuoteC, QuoteG, QuoteU}

InitColor ==
    /\ files = <<>>
    /\ folders = <<>>
    /\ \E qt \in QuoteTemplates, cm \in QuoteColorModes :
          settings = [DEFAULT_SETTINGS EXCEPT !.quoteTemplate = qt, !.quoteColorMode = cm]
    /\ remote = <<SourcePool[1]>>
    /\ remoteTags = <<>>
    /\ reflection = NoReflection
    /\ sourceIdToFileName = <<>>
    /\ today = 1
    /\ persisted = settings
    /\ pc = "idle"
    /\ cycle = NoCycle
    /\ notices = <<>>
    /\ hist = NoHist

\* The user highlights a quote the source does not have yet.
Highlight(quote) ==
    /\ \A k \in 1..Len(remote[1].quotes) : remote[1].quotes[k] # quote
    /\ AddQuote(1, quote)

NextColor ==
    \/ \E quote \in ColorQuotes : Highlight(quote)
    \/ Merge(NoFault)

SpecColor == InitColor /\ [][NextColor]_vars

\* C33: for every colour mode, colour and extraction mode, a merge appends
\* no quote whose content an earlier merge has written to the file.
C33_ColorKeepsIdentity ==
    [][hist'.op = "merge" =>
        \A k \in 1..Len(hist'.log) :
            hist'.log[k].existed =>
                \A j \in 1..Len(hist'.log[k].appended) :
                    CountOccurrences(files[hist'.log[k].path],
                                     hist'.log[k].appended[j]) = 0]_vars

-----------------------------------------------------------------------------
(* SpecSwitch: merges before and after a change of the extraction mode     *)

\* No colour styling; the fixed layout or the example template to begin with.
InitSwitch ==
    /\ files = <<>>
    /\ folders = <<>>
    /\ settings \in {[DEFAULT_SETTINGS EXCEPT !.quoteTemplate = qt, !.quoteColorMode = "none"] :
                        qt \in QuoteTemplates}
    /\ remote = <<SourcePool[1]>>
    /\ remoteTags = <<>>
    /\ reflection = NoReflection
    /\ sourceIdToFileName = <<>>
    /\ today = 1
    /\ persisted = settings
    /\ pc = "idle"
    /\ cycle = NoCycle
    /\ notices = <<>>
    /\ hist = NoHist

NextSwitch ==
    \/ \E quote \in {QuoteA, QuoteB, QuoteC} : Highlight(quote)
    \/ \E value \in QuoteTemplates : ChangeQuoteTemplate(value)
    \/ Merge(NoFault)

SpecSwitch == InitSwitch /\ [][NextSwitch]_vars

\* C34: the merge that follows a switch between the fixed layout and a quote
\* template, with the remote data of the merge before the switch, appends no
\* quote that the file holds already.
C34_SwitchKeepsQuotes ==
    [][(hist.op = "settings" /\ hist'.op = "merge") =>
        \A k \in 1..Len(hist'.log) :
            LET entry == hist'.log[k] IN
            entry.existed =>
                \A j \in 1..Len(entry.appended) :
                    ~HasSubstring(files[entry.path], entry.appended[j])]_vars

-----------------------------------------------------------------------------
(* SpecCollide: sources whose names may meet                               *)

\* Books the service may list side by side: two with their own titles, one
\* with the title of the first under another id, one whose title differs
\* from it in case only.
CollidePool ==
    {SourcePool[1], SourcePool[2],
     Source("s3", <<"T", "a">>, <<"b", "o", "o", "k">>),
     Source("s4", <<"t", "A">>, <<"b", "o", "o", "k">>)}

InitCollide ==
    /\ files = <<>>
    /\ folders = <<>>
    /\ settings \in {[DEFAULT_SETTINGS EXCEPT !.sourceFilenameLowercase = lower] :
                        lower \in BOOLEAN}
    /\ remote \in {<<a, b>> : a, b \in CollidePool} \ {<<a, a>> : a \in CollidePool}
    /\ remoteTags = <<>>
    /\ reflection = NoReflection
    /\ sourceIdToFileName = <<>>
    /\ today = 1
    /\ persisted = settings
    /\ pc = "idle"
    /\ cycle = NoCycle
    /\ notices = <<>>
    /\ hist = NoHist

NextCollide ==
    \/ \E i \in 1..Len(remote) : \E quote \in {QuoteA, QuoteB} : AddQuote(i, quote)
    \/ Merge(NoFault)

SpecCollide == InitCollide /\ [][NextCollide]_vars

\* C35: the sources of one merge that have different ids are written to
\* different paths.
C35_OneFilePerSourceId ==
    hist.op = "merge" =>
        \A j, k \in 1..Len(hist.log) :
            hist.log[j].id # hist.log[k].id => hist.log[j].path # hist.log[k].path

-----------------------------------------------------------------------------
(* SpecMapNames: the id -> filename map against the files of the merge     *)

\* A book whose title toSafeFileName has to change.
BookExample == Source("s5", ExampleTitle, <<"b", "o", "o", "k">>)

\* The failures of the storage during a cycle: none, the write of one file,
\* the creation of the folder of the books.
MapFaults ==
    {NoFault, [NoFault EXCEPT !.mkdir = {BooksFolder}]}
    \cup {[NoFault EXCEPT !.write = {Path(BooksFolder, name)}] :
             name \in {<<"t", "a">>, <<"T", "a">>, ExampleFileName}}

InitMapNames ==
    /\ files = <<>>
    /\ folders = <<>>
    /\ settings \in {[DEFAULT_SETTINGS EXCEPT !.unearthedApiKey = "key",
                                             !.sourceFilenameLowercase = lower,
                                             !.sourceFilenameReplaceSpaces = r] :
                        lower \in BOOLEAN, r \in {<<"-">>, <<DOLLAR>>}}
    /\ remote \in {<<a>> : a \in {SourcePool[1], BookExample}}
                  \cup {<<SourcePool[1], BookExample>>, <<BookExample, SourcePool[2]>>}
    /\ remoteTags = <<>>
    /\ reflection = NoReflection
    /\ sourceIdToFileName = <<>>
    /\ today = 1
    /\ persisted = settings
    /\ pc = "idle"
    /\ cycle = NoCycle
    /\ notices = <<>>
    /\ hist = NoHist

\* One sync cycle, syncData(plugin): the map, then the merge.
SyncCycle(net, fault) ==
    /\ hist.runs < MaxRuns
    /\ \E y \in {syncData(files, folders, settings, sourceIdToFileName, remote,
                           remoteTags, net, fault, TRUE)} :
           /\ files' = y.files
           /\ folders' = y.folders
           /\ settings' = y.settings
           /\ persisted' = y.settings
           /\ sourceIdToFileName' = y.map
           /\ notices' = y.notices
           /\ hist' = [hist EXCEPT !.op = "cycle", !.fault = fault, !.log = y.log,
                                    !.runs = hist.runs + 1, !.rejected = y.rejected]
    /\ UNCHANGED <<remote, remoteTags, reflection, today, pc, cycle>>

NextMapNames ==
    \/ \E i \in 1..Len(remote) : \E quote \in {QuoteA, QuoteB} : AddQuote(i, quote)
    \/ \E net \in {NetOk, [NetOk EXCEPT !.sources = "error"]}, fault \in MapFaults :
          SyncCycle(net, fault)

SpecMapNames == InitMapNames /\ [][NextMapNames]_vars

-----------------------------------------------------------------------------
(* The notice of the injector                                              *)

\* C37: an injector call shows "Daily reflection added successfully" only if
\* the daily note of the day is there and holds a reflection block when the
\* call returns.
C37_SuccessNoticeMeansBlock ==
    (hist.op = "inject" /\ Includes(notices, "Daily reflection added successfully"))
        => /\ DailyNotePath(settings, today) \in DOMAIN files
           /\ ReflectionBlocks(files[DailyNotePath(settings, today)]) >= 1

=============================================================================
